---- MODULE Spec2Model ----
(***************************************************************************)
(* A model of gamle: the seeded config generator (lib/random.ts,           *)
(* lib/gameGenerator.ts), the App shell that owns the GameState            *)
(* (App.tsx, GameContainer) and the twelve mechanic components.            *)
(*                                                                         *)
(* 32-bit values are kept as a pair <<hi, lo>> of 16-bit halves, because   *)
(* the generator's arithmetic wraps at 2^32.                               *)
(***************************************************************************)
EXTENDS Integers, Sequences, FiniteSets, TLC

VARIABLES
  \* generator harness (lib/gameGenerator.ts, lib/random.ts)
  genSeed,      \* seed of the latest generateGameConfig call
  genRun,       \* what that call returned: config, draws consumed
  genPrev,      \* the call before it
  genStream,    \* the values its random() closure yields, in order
  genFirst,     \* seed -> the config its first call returned
  genCount,     \* seed -> number of calls made with it (capped)
  rngState,     \* `state` of the most recently created random() closure
  \* library functions called on their own
  gens,         \* the random() closures created: seed, state, values returned
  guessed,      \* the guess scored last: target, guess, feedback
  dealt,        \* the arrange deal made last: seed, items, targetOrder,
                \* and the seed of the deal before it
  called,       \* the library or container call made last: function,
                \* arguments, what it returned
  \* App (App.tsx) and localStorage (lib/storage.ts)
  today,        \* getDailySeed() of the day the app runs on
  mode,         \* "daily" or "infinite"
  config,       \* the GameConfig of the session on screen
  state,        \* its GameState
  result,       \* <<>> or <<the GameResult shown>>
  showResult,
  storage,      \* daily progress, infinite seed, game history
  \* the mounted mechanic component
  gameData,     \* its gameData (NullData while null)
  timeLeft,     \* its countdown (NullTime while null)
  isChecking,   \* MatchGame: a flipped pair waits for its compare timer
  timers,       \* setTimeout callbacks scheduled and neither fired nor cleared
  \* bookkeeping of the run
  session,      \* number of fresh GameStates created so far
  instance,     \* number of mechanic components mounted so far
  emitted,      \* per session: how often its component called onComplete
  owner,        \* the session whose callbacks or start set `state` last
  inputs,       \* steps of the player and the clock made so far
  \* two sessions side by side
  repro         \* their seed, their simulator states, the frames run

libVars == <<gens, guessed, dealt, called>>
genVars == <<genSeed, genRun, genPrev, genStream, genFirst, genCount, rngState,
             libVars>>
appVars == <<today, mode, config, state, result, showResult, storage>>
compVars == <<gameData, timeLeft, isChecking, timers>>
runVars == <<session, instance, emitted, owner, inputs>>
vars == <<genVars, appVars, compVars, runVars, repro>>

None == "none"
Undefined == "undefined"

----------------------------------------------------------------------------
(* 32-bit arithmetic as JavaScript's |0, >>>, ^, | and Math.imul do it.    *)

Half == 65536

RECURSIVE And16(_, _, _)
\* bitwise AND of the low n bits of x and y
And16(x, y, n) ==
  IF n = 0 THEN 0
  ELSE ((x % 2) * (y % 2)) + 2 * And16(x \div 2, y \div 2, n - 1)

Xor16(x, y) == x + y - 2 * And16(x, y, 16)
Or16(x, y) == x + y - And16(x, y, 16)

\* ToInt32/ToUint32 of a non-negative integer below 2^31
ToWord(n) == <<n \div Half, n % Half>>

Xor32(a, b) == <<Xor16(a[1], b[1]), Xor16(a[2], b[2])>>

\* a | k for a constant k below 2^16
OrLow(a, k) == <<a[1], Or16(a[2], k)>>

\* (a + b) | 0
Add32(a, b) ==
  LET lo == a[2] + b[2]
  IN  <<(a[1] + b[1] + (lo \div Half)) % Half, lo % Half>>

Pow2(n) == CASE n = 7 -> 128 [] n = 14 -> 16384 [] n = 15 -> 32768

\* a >>> n for 0 < n < 16
Shr32(a, n) ==
  <<a[1] \div Pow2(n), (a[1] % Pow2(n)) * (Half \div Pow2(n)) + (a[2] \div Pow2(n))>>

\* (x * y) mod 2^16 for 16-bit x, y, never leaving 32 bits
MulMod16(x, y) == ((((x \div 256) * y) % 256) * 256 + (x % 256) * y) % Half

\* Math.imul(a, b): the low 32 bits of the product
Imul(a, b) ==
  LET q == (a[2] \div 256) * b[2]
      s == (a[2] % 256) * b[2] + (q % 256) * 256
      p0hi == ((s \div Half) + (q \div 256)) % Half
  IN  <<(p0hi + MulMod16(a[1], b[2]) + MulMod16(a[2], b[1])) % Half, s % Half>>

----------------------------------------------------------------------------
(* lib/random.ts                                                           *)

\* a generator whose `state` lives outside the closure and is seeded once
createSeededRandomShared(seed) ==
  IF rngState = <<0, 0>> THEN ToWord(seed) ELSE rngState

\* createSeededRandom: the closure's `state` starts as the seed
createSeededRandom(seed) == ToWord(seed)

\* 0x6d2b79f5
Golden == <<27947, 31221>>

\* one call of random(): the new closure state and the 32-bit numerator of
\* the returned fraction value / 4294967296
Random(st) ==
  LET s  == Add32(st, Golden)
      t1 == Imul(Xor32(s, Shr32(s, 15)), OrLow(s, 1))
      t2 == Xor32(Add32(t1, Imul(Xor32(t1, Shr32(t1, 7)), OrLow(t1, 61))), t1)
  IN  [state |-> s, value |-> Xor32(t2, Shr32(t2, 14))]

\* Math.floor(r * n) for the fraction r = u / 2^32 and a small integer n
FloorMul(u, n) == (u[1] * n + ((u[2] * n) \div Half)) \div Half

\* r < 0.3 for r = u / 2^32: the double 0.3 lies between
\* 1288490188 / 2^32 and 1288490189 / 2^32
LessThanGate(u) == u[1] < 19660 \/ (u[1] = 19660 /\ u[2] <= 52428)


----------------------------------------------------------------------------
(* lib/gameGenerator.ts: tables                                            *)

MECHANICS ==
  <<"guess", "match", "remember", "react", "arrange", "deduce",
    "trace", "hunt", "stack", "dodge", "chase", "bounce">>

MODIFIERS ==
  <<"hidden", "inverted", "chained", "speed", "mirrored", "blind",
    "zen", "chaos", "turbo", "gravity">>

COMPATIBLE_COMBOS ==
  [guess    |-> <<"words", "colors", "numbers", "patterns", "emoji", "math">>,
   match    |-> <<"colors", "shapes", "patterns", "numbers", "emoji">>,
   remember |-> <<"colors", "shapes", "patterns", "numbers", "emoji", "directions">>,
   react    |-> <<"colors", "shapes", "numbers", "emoji", "directions">>,
   arrange  |-> <<"numbers", "colors", "shapes", "patterns", "emoji", "math">>,
   deduce   |-> <<"numbers", "colors", "patterns", "words", "math">>,
   trace    |-> <<"directions", "shapes", "patterns", "colors">>,
   hunt     |-> <<"emoji", "shapes", "colors", "numbers">>,
   stack    |-> <<"colors", "shapes", "numbers", "emoji", "math">>,
   dodge    |-> <<"colors", "shapes", "numbers", "emoji">>,
   chase    |-> <<"colors", "shapes", "numbers", "emoji">>,
   bounce   |-> <<"colors", "shapes", "numbers", "emoji">>]

COMPATIBLE_CONSTRAINTS ==
  [guess    |-> <<"attempts", "time">>,
   match    |-> <<"attempts", "time", "grid">>,
   remember |-> <<"attempts", "sequence", "time", "streak">>,
   react    |-> <<"time", "sequence", "streak", "precision">>,
   arrange  |-> <<"attempts", "grid", "time">>,
   deduce   |-> <<"attempts", "time", "grid">>,
   trace    |-> <<"attempts", "time", "precision">>,
   hunt     |-> <<"time", "attempts", "streak">>,
   stack    |-> <<"time", "attempts", "streak", "precision">>,
   dodge    |-> <<"time", "survival">>,
   chase    |-> <<"time", "survival", "laps">>,
   bounce   |-> <<"survival", "time">>]

SeqToSet(s) == {s[i] : i \in DOMAIN s}

\* array[Math.floor(r * array.length)] for the fraction r = u / 2^32;
\* indexing past the end of a JavaScript array yields undefined
pickRandom(array, u) ==
  LET i == FloorMul(u, Len(array)) + 1
  IN  IF i \in DOMAIN array THEN array[i] ELSE Undefined

\* the first n results of random() for a closure created from `seed`
RECURSIVE StreamFrom(_, _)
StreamFrom(st, n) ==
  IF n = 0 THEN <<>>
  ELSE LET r == Random(st) IN <<r.value>> \o StreamFrom(r.state, n - 1)

RECURSIVE StateAfter(_, _)
\* the closure state after n calls of random()
StateAfter(st, n) == IF n = 0 THEN st ELSE StateAfter(Random(st).state, n - 1)

\* generateGameConfig never calls random() more than six times
GenDraws == 6

\* generateGameConfig picking the element among all elements, whatever
\* the mechanic
GenFromDrawsUnfiltered(seed, draws) ==
  LET mechanic   == pickRandom(MECHANICS, draws[1])
      element    == pickRandom(<<"words", "colors", "shapes", "numbers",
                                 "patterns", "emoji", "directions", "math">>,
                               draws[2])
      constraint == pickRandom(COMPATIBLE_CONSTRAINTS[mechanic], draws[3])
      gated      == LessThanGate(draws[4])
      modifier   == IF gated THEN pickRandom(MODIFIERS, draws[5]) ELSE Undefined
      used       == IF gated THEN 6 ELSE 5
      difficulty == FloorMul(draws[used], 3) + 2
  IN  [config |-> [mechanic |-> mechanic, element |-> element,
                   constraint |-> constraint, modifier |-> modifier,
                   seed |-> seed, difficulty |-> difficulty],
       used   |-> used,
       draws  |-> SubSeq(draws, 1, used)]

\* generateGameConfig drawing the difficulty before the modifier
GenFromDrawsReordered(seed, draws) ==
  LET mechanic   == pickRandom(MECHANICS, draws[1])
      element    == pickRandom(COMPATIBLE_COMBOS[mechanic], draws[2])
      constraint == pickRandom(COMPATIBLE_CONSTRAINTS[mechanic], draws[3])
      gated      == LessThanGate(draws[4])
      difficulty == FloorMul(draws[5], 3) + 2
      modifier   == IF gated THEN pickRandom(MODIFIERS, draws[6]) ELSE Undefined
      used       == IF gated THEN 6 ELSE 5
  IN  [config |-> [mechanic |-> mechanic, element |-> element,
                   constraint |-> constraint, modifier |-> modifier,
                   seed |-> seed, difficulty |-> difficulty],
       used   |-> used,
       draws  |-> SubSeq(draws, 1, used)]

\* generateGameConfig drawing the difficulty among four values
GenFromDrawsWide(seed, draws) ==
  LET mechanic   == pickRandom(MECHANICS, draws[1])
      element    == pickRandom(COMPATIBLE_COMBOS[mechanic], draws[2])
      constraint == pickRandom(COMPATIBLE_CONSTRAINTS[mechanic], draws[3])
      gated      == LessThanGate(draws[4])
      modifier   == IF gated THEN pickRandom(MODIFIERS, draws[5]) ELSE Undefined
      used       == IF gated THEN 6 ELSE 5
      difficulty == FloorMul(draws[used], 4) + 2
  IN  [config |-> [mechanic |-> mechanic, element |-> element,
                   constraint |-> constraint, modifier |-> modifier,
                   seed |-> seed, difficulty |-> difficulty],
       used   |-> used,
       draws  |-> SubSeq(draws, 1, used)]

\* generateGameConfig with the k-th call of random() returning draws[k]:
\* mechanic, element, constraint, modifier gate, modifier if gated,
\* difficulty, in this order
GenFromDraws(seed, draws) ==
  LET mechanic   == pickRandom(MECHANICS, draws[1])
      element    == pickRandom(COMPATIBLE_COMBOS[mechanic], draws[2])
      constraint == pickRandom(COMPATIBLE_CONSTRAINTS[mechanic], draws[3])
      gated      == LessThanGate(draws[4])
      modifier   == IF gated THEN pickRandom(MODIFIERS, draws[5]) ELSE Undefined
      used       == IF gated THEN 6 ELSE 5
      difficulty == FloorMul(draws[used], 3) + 2
  IN  [config |-> [mechanic |-> mechanic, element |-> element,
                   constraint |-> constraint, modifier |-> modifier,
                   seed |-> seed, difficulty |-> difficulty],
       used   |-> used,
       draws  |-> SubSeq(draws, 1, used)]

\* generateGameConfig(seed): the draws come from a fresh closure
GenRun(seed) ==
  LET st0 == createSeededRandom(seed)
      run == GenFromDraws(seed, StreamFrom(st0, GenDraws))
  IN  [config |-> run.config, used |-> run.used, draws |-> run.draws,
       state |-> StateAfter(st0, run.used)]

generateGameConfig(seed) == GenRun(seed).config

----------------------------------------------------------------------------
(* Generator harness: generateGameConfig called repeatedly, with seeds     *)
(* (SpecGen) or with the results of its random() chosen freely (SpecDraws) *)

\* seeds the harness calls generateGameConfig with
GenSeeds == {0, 1, 4, 8, 20261101}

\* number of calls the harness makes
MaxCalls == 3

RECURSIVE SumOver(_, _)
SumOver(f, S) ==
  IF S = {} THEN 0
  ELSE LET x == CHOOSE y \in S : TRUE IN f[x] + SumOver(f, S \ {x})

\* the smallest fraction u / 2^32 with Math.floor(u / 2^32 * n) = i
Frac(i, n) == <<(i * Half + n - 1) \div n, 0>>

\* the largest fraction random() can return
Top == <<65535, 65535>>

\* the results the k-th call of random() is chosen from in SpecDraws:
\* one per index of the array it picks from, and both sides of the 0.3 gate
DrawChoices(k) ==
  CASE k = 1 -> {Frac(i, 12) : i \in 0..11}
    [] k = 2 -> {Frac(i, 6) : i \in 0..5} \cup {Top}
    [] k = 3 -> {Frac(i, 4) : i \in 0..3} \cup {Top}
    [] k = 4 -> {<<0, 0>>, <<19660, 52428>>, <<19660, 52429>>, Top}
    [] k = 5 -> {<<0, 0>>, Frac(1, 3), Top}
    [] k = 6 -> {Frac(i, 3) : i \in 0..2} \cup {Top}

\* no call made yet
NoConfig ==
  [mechanic |-> None, element |-> None, constraint |-> None,
   modifier |-> None, seed |-> 0, difficulty |-> 0]
NoRun == [config |-> NoConfig, used |-> 0, draws |-> <<>>]

\* no guess scored, no deal made, no closure created
NoGuess == [target |-> <<>>, guess |-> <<>>, feedback |-> <<>>]
NoDeal ==
  [seed |-> 0, element |-> None, items |-> <<>>, targetOrder |-> <<>>,
   before |-> 0]
NoCall == [fn |-> None, seed |-> 0]

NoLib ==
  /\ gens = <<>>
  /\ guessed = NoGuess
  /\ dealt = NoDeal
  /\ called = NoCall

GenInit ==
  /\ NoLib
  /\ genSeed = 0
  /\ genRun = NoRun
  /\ genPrev = NoRun
  /\ genStream = <<>>
  /\ genFirst = [s \in GenSeeds |-> NoConfig]
  /\ genCount = [s \in GenSeeds |-> 0]
  /\ rngState = <<0, 0>>

\* a caller invokes generateGameConfig(seed)
GenerateCall(seed) ==
  /\ SumOver(genCount, GenSeeds) < MaxCalls
  /\ \E run \in {GenRun(seed)} :
       /\ genSeed' = seed
       /\ genRun' = [config |-> run.config, used |-> run.used, draws |-> run.draws]
       /\ genStream' = run.draws
       /\ rngState' = run.state
       /\ genFirst' = IF genCount[seed] = 0
                        THEN [genFirst EXCEPT ![seed] = run.config]
                        ELSE genFirst
  /\ genCount' = [genCount EXCEPT ![seed] = @ + 1]
  /\ genPrev' = genRun
  /\ UNCHANGED libVars

DrawsInit ==
  /\ NoLib
  /\ genSeed = 0
  /\ genStream = [k \in 1..GenDraws |-> <<0, 0>>]
  /\ genRun = GenFromDraws(0, genStream)
  /\ genPrev = NoRun
  /\ genFirst = [s \in GenSeeds |-> NoConfig]
  /\ genCount = [s \in GenSeeds |-> 0]
  /\ rngState = <<0, 0>>

\* generateGameConfig is called again with a closure whose k-th result
\* is v and whose other results are as in the call before
Redraw(k, v) ==
  /\ genStream[k] # v
  /\ genStream' = [genStream EXCEPT ![k] = v]
  /\ genRun' = GenFromDraws(genSeed, genStream')
  /\ UNCHANGED <<genSeed, genPrev, genFirst, genCount, rngState, libVars>>

GenNext == \E seed \in GenSeeds : GenerateCall(seed)
DrawsNext == \E k \in 1..GenDraws : \E v \in DrawChoices(k) : Redraw(k, v)


----------------------------------------------------------------------------
(* Claims about the generator                                              *)

\* C8: generateGameConfig is a pure function of its seed: whatever calls
\* came before, a call returns the config the first call with that seed
\* returned, field by field, and the config carries the seed it was given.
C8_Pure ==
  genRun.used > 0 =>
    /\ genRun.config.seed = genSeed
    /\ genRun.config.mechanic = genFirst[genSeed].mechanic
    /\ genRun.config.element = genFirst[genSeed].element
    /\ genRun.config.constraint = genFirst[genSeed].constraint
    /\ genRun.config.modifier = genFirst[genSeed].modifier
    /\ genRun.config.seed = genFirst[genSeed].seed
    /\ genRun.config.difficulty = genFirst[genSeed].difficulty

\* C8 witness: a seed is called a second time after a call with another
\* seed has left its generator state behind
C8_Witness ==
  /\ genCount[genSeed] >= 2
  /\ genPrev.used > 0
  /\ genPrev.config.seed # genSeed
  /\ rngState # createSeededRandom(genSeed)

\* C9: the generated config has its element in the element whitelist of
\* its mechanic and its constraint in the constraint whitelist of its
\* mechanic, and each of the twelve mechanics has non-empty whitelists.
C9_Whitelisted ==
  /\ genRun.config.mechanic \in SeqToSet(MECHANICS)
  /\ genRun.config.element \in SeqToSet(COMPATIBLE_COMBOS[genRun.config.mechanic])
  /\ genRun.config.constraint \in
       SeqToSet(COMPATIBLE_CONSTRAINTS[genRun.config.mechanic])
  /\ Len(MECHANICS) = 12
  /\ Cardinality(SeqToSet(MECHANICS)) = 12
  /\ \A i \in DOMAIN MECHANICS :
       /\ Len(COMPATIBLE_COMBOS[MECHANICS[i]]) > 0
       /\ Len(COMPATIBLE_CONSTRAINTS[MECHANICS[i]]) > 0

\* C9 witness: the last mechanic with the last entry of both whitelists
C9_Witness ==
  /\ genRun.config.mechanic = "bounce"
  /\ genRun.config.element = "emoji"
  /\ genRun.config.constraint = "time"
  /\ genStream[1] = Frac(11, 12)
  /\ genStream[2] = Top
  /\ genStream[3] = Top

\* the number of draws follows the gate: 6 and a modifier when the 4th
\* draw is below 0.3, 5 and no modifier otherwise
DrawCountByGate ==
  /\ LessThanGate(genStream[4]) =>
       genRun.used = 6 /\ genRun.config.modifier \in SeqToSet(MODIFIERS)
  /\ ~LessThanGate(genStream[4]) =>
       genRun.used = 5 /\ genRun.config.modifier = Undefined

\* the k-th draw is the same in two consecutive calls
SameDraw(k) == genStream'[k] = genStream[k]

\* the field has the same value in the configs of two consecutive calls
SameMechanic == genRun'.config.mechanic = genRun.config.mechanic
SameElement == genRun'.config.element = genRun.config.element
SameConstraint == genRun'.config.constraint = genRun.config.constraint
SameModifier == genRun'.config.modifier = genRun.config.modifier
SameDifficulty == genRun'.config.difficulty = genRun.config.difficulty
SameLastDraw == genStream'[genRun'.used] = genStream[genRun.used]

\* C10 as stated: the draw count follows the gate, and a field does not
\* change between two calls whose draw for that field is the same:
\* mechanic 1st, element 2nd, constraint 3rd, modifier 4th and 5th,
\* difficulty the last draw taken.
C10_KthDrawAlone ==
  /\ []DrawCountByGate
  /\ [][/\ (SameDraw(1) => SameMechanic)
         /\ (SameDraw(2) => SameElement)
         /\ (SameDraw(3) => SameConstraint)
         /\ ((SameDraw(4) /\ SameDraw(5)) => SameModifier)
         /\ (SameLastDraw => SameDifficulty)]_genVars

\* C10 amended: the draw count follows the gate; the mechanic is
\* determined by the 1st draw, the element by the 1st and 2nd, the
\* constraint by the 1st and 3rd, the modifier by the 4th and 5th, the
\* difficulty by the last draw taken.
C10_DrawOrder ==
  /\ []DrawCountByGate
  /\ [][/\ (SameDraw(1) => SameMechanic)
         /\ ((SameDraw(1) /\ SameDraw(2)) => SameElement)
         /\ ((SameDraw(1) /\ SameDraw(3)) => SameConstraint)
         /\ ((SameDraw(4) /\ SameDraw(5)) => SameModifier)
         /\ (SameLastDraw => SameDifficulty)]_genVars

\* C10 witness: a gated call (4th draw just below 0.3) that took six
\* draws, its modifier from the 5th and its difficulty from the 6th
C10_Witness ==
  /\ genStream[4] = <<19660, 52428>>
  /\ genRun.used = 6
  /\ genRun.config.modifier = "gravity"
  /\ genStream[5] = Top
  /\ genRun.config.difficulty = 4
  /\ genStream[6] = Top

----------------------------------------------------------------------------
(* lib/gameGenerator.ts: the scalars derived from a config                 *)

Max(a, b) == IF a >= b THEN a ELSE b
Min(a, b) == IF a <= b THEN a ELSE b

\* timeLimit: undefined is kept as 0, which every reader of timeLimit
\* treats like undefined (`state.timeLimit || 60`)
NoLimit == 0

getBaseAttempts(cfg) ==
  LET base == [guess |-> 6, match |-> 20, remember |-> 3, react |-> 5,
               arrange |-> 15, deduce |-> 8, trace |-> 3, hunt |-> 10,
               stack |-> 10, dodge |-> 3, chase |-> 3, bounce |-> 3]
  IN  Max(3, base[cfg.mechanic] - (cfg.difficulty - 2))
        + (IF cfg.modifier = "chained" THEN 2 ELSE 0)
        + (IF cfg.modifier = "zen" THEN 5 ELSE 0)

getTimeLimit(cfg) ==
  LET base == [guess |-> 120, match |-> 60, remember |-> 45, react |-> 30,
               arrange |-> 90, deduce |-> 120, trace |-> 60, hunt |-> 45,
               stack |-> 60, dodge |-> 60, chase |-> 90, bounce |-> 120]
      sped == IF cfg.modifier = "speed"
                THEN base[cfg.mechanic] \div 2 ELSE base[cfg.mechanic]
  IN  IF cfg.constraint \notin {"time", "streak", "survival"} THEN NoLimit
      ELSE IF cfg.modifier = "zen" THEN sped * 2 ELSE sped

getMaxScore(cfg) ==
  (IF cfg.mechanic = "guess" THEN 6 ELSE 100) * cfg.difficulty

\* state.data: the keys the components read back
NoData == [initialized |-> FALSE, target |-> FALSE, guesses |-> 0]

createInitialGameState(cfg) ==
  [config |-> cfg, started |-> FALSE, completed |-> FALSE, won |-> FALSE,
   score |-> 0, maxScore |-> getMaxScore(cfg), attempts |-> 0,
   maxAttempts |-> getBaseAttempts(cfg), timeElapsed |-> 0,
   timeLimit |-> getTimeLimit(cfg), moves |-> <<>>, data |-> NoData]

\* a GameMove; its value and timestamp are not kept
Move(type, correct) == [type |-> type, correct |-> correct]

----------------------------------------------------------------------------
(* lib/storage.ts                                                          *)

NoStorage == [progress |-> <<>>, infiniteSeed |-> <<>>, history |-> <<>>]

\* saveDailyProgress: a new progress object, without a result
saveDailyProgress(store, day, st) ==
  [store EXCEPT !.progress = <<[seed |-> day, state |-> st, result |-> <<>>]>>]

\* loadDailyProgress: only progress stored today is returned
loadDailyProgress(store, day) ==
  IF store.progress # <<>> /\ store.progress[1].seed = day
    THEN store.progress ELSE <<>>

saveDailyResult(store, day, res) ==
  LET progress == loadDailyProgress(store, day)
  IN  [store EXCEPT
         !.progress = IF progress # <<>>
                        THEN <<[progress[1] EXCEPT !.result = <<res>>]>>
                        ELSE @,
         !.history = Append(@, res)]

----------------------------------------------------------------------------
(* GameContainer and App: what a component's onStateChange and onComplete  *)
(* calls do.  A component's callback or effect yields the list of calls it *)
(* makes; a call of onComplete carries `base`, the GameState the           *)
(* GameContainer closure it reaches was rendered with.                     *)

StateCall(st) == [op |-> "state", st |-> st]
CompleteCall(won, score, base) ==
  [op |-> "complete", won |-> won, score |-> score, base |-> base]

\* GameContainer.handleComplete: the result is built from the closure's
\* config and state (date and shareText are not kept)
containerHandleComplete(cfg, base, won, score) ==
  [seed |-> cfg.seed, config |-> cfg, won |-> won, score |-> score,
   maxScore |-> base.maxScore, attempts |-> base.attempts,
   maxAttempts |-> base.maxAttempts, timeElapsed |-> base.timeElapsed]

\* App.handleStateChange, with the mode its closure was created in
handleStateChange(app, closure, newState) ==
  [app EXCEPT
     !.state = newState,
     !.storage = IF closure.mode = "daily"
                   THEN saveDailyProgress(@, closure.today, newState) ELSE @]

\* App.handleComplete
handleComplete(app, closure, gameResult) ==
  [app EXCEPT
     !.result = <<gameResult>>,
     !.showResult = TRUE,
     !.storage = IF closure.mode = "daily"
                   THEN saveDailyResult(@, closure.today, gameResult) ELSE @]

\* the App state, and the closure a component rendered now calls into
App ==
  [state |-> state, result |-> result, showResult |-> showResult,
   storage |-> storage, emitted |-> emitted, owner |-> owner]
Closure ==
  [mode |-> mode, today |-> today, config |-> config, session |-> session,
   instance |-> instance]

RECURSIVE Deliver(_, _, _)
\* the calls of one callback, in order
Deliver(app, closure, calls) ==
  IF calls = <<>> THEN app
  ELSE LET c == Head(calls)
           next ==
             IF c.op = "state"
               THEN [handleStateChange(app, closure, c.st)
                     EXCEPT !.owner = closure.session]
             ELSE [handleComplete(app, closure,
                     containerHandleComplete(closure.config, c.base, c.won, c.score))
                   EXCEPT !.emitted[closure.session] = @ + 1]
       IN  Deliver(next, closure, Tail(calls))

\* the GameState a component is rendered with after its calls
RECURSIVE LastState(_, _)
LastState(st, calls) ==
  IF calls = <<>> THEN st
  ELSE LastState(IF Head(calls).op = "state" THEN Head(calls).st ELSE st,
                 Tail(calls))

\* the App state `app` takes the calls of `out` through `closure`, and the
\* component keeps the local state of `out`
Apply(app, closure, out) ==
  /\ \E next \in {Deliver(app, closure, out.calls)} :
       /\ state' = next.state
       /\ result' = next.result
       /\ showResult' = next.showResult
       /\ storage' = next.storage
       /\ emitted' = next.emitted
       /\ owner' = next.owner
  /\ gameData' = out.gameData
  /\ timeLeft' = out.timeLeft
  /\ isChecking' = out.isChecking
  /\ timers' = out.timers

\* a callback of the mounted component ran and left `out`
Commit(out) ==
  /\ Apply(App, Closure, out)
  /\ UNCHANGED <<today, mode, config, session, instance>>

\* what a mounted component's callback sees
World ==
  [state |-> state, gameData |-> gameData, timeLeft |-> timeLeft,
   isChecking |-> isChecking, timers |-> timers, calls |-> <<>>]

NullData == [kind |-> "null"]
NullTime == -1

\* a callback or effect makes these calls; the component is rendered with
\* the last state it passed on before its next effect runs
Calls(w, calls) ==
  [w EXCEPT !.calls = @ \o calls, !.state = LastState(@, calls)]

----------------------------------------------------------------------------
(* games: GuessGame (ReactGame.tsx 340-624).  The secret and the guesses   *)
(* are kept as the number of guesses made; a guess is right or wrong.      *)

\* effect "Initialize game data"
GuessInit(w) ==
  IF ~w.state.data.initialized
    THEN Calls([w EXCEPT !.gameData = [kind |-> "guess", guesses |-> 0]],
               <<StateCall([w.state EXCEPT
                    !.started = TRUE,
                    !.data = [@ EXCEPT !.initialized = TRUE, !.target = TRUE]])>>)
  ELSE IF w.state.data.target
    THEN [w EXCEPT !.gameData = [kind |-> "guess",
                                 guesses |-> w.state.data.guesses]]
  ELSE w

\* submitGuess without the completed guard
submitGuessUnguarded(w, right) ==
  LET attempts  == w.state.attempts + 1
      completed == right \/ attempts >= w.state.maxAttempts
      score     == IF right THEN w.state.maxAttempts - attempts + 1 ELSE 0
      newState  == [w.state EXCEPT
                      !.attempts = attempts, !.completed = completed,
                      !.won = right, !.score = score,
                      !.moves = Append(@, Move("guess", right)),
                      !.data = [@ EXCEPT !.guesses = w.gameData.guesses + 1]]
  IN  Calls([w EXCEPT !.gameData = [@ EXCEPT !.guesses = @ + 1]],
            <<StateCall(newState)>> \o
            (IF completed THEN <<CompleteCall(right, score, w.state)>> ELSE <<>>))

\* submitGuess with a guess of the target's length: `right` says whether it
\* equals the target
submitGuess(w, right) ==
  IF w.gameData = NullData \/ w.state.completed THEN w
  ELSE submitGuessUnguarded(w, right)

----------------------------------------------------------------------------
(* games: MatchGame.  Of the deck the model keeps how many pairs it holds, *)
(* how many are matched and how many cards are face up.                    *)

\* items the deck is drawn from: 12 colors, 12 shapes, 20 numbers,
\* 18 patterns
MatchItems(cfg) ==
  CASE cfg.element \in {"colors", "shapes"} -> 12
    [] cfg.element = "numbers" -> 20
    [] OTHER -> 18

\* effect "Initialize game"
MatchInit(w) ==
  IF ~w.state.data.initialized
    THEN LET cfg      == w.state.config
             gridSize == IF cfg.difficulty <= 2 THEN 4
                         ELSE IF cfg.difficulty <= 4 THEN 6 ELSE 8
             pairs    == (gridSize * gridSize) \div 2
         IN  Calls([w EXCEPT !.gameData =
                      [kind |-> "match", seed |-> cfg.seed,
                       deckPairs |-> Min(pairs, MatchItems(cfg)),
                       flipped |-> 0, matchedPairs |-> 0, totalPairs |-> pairs]],
                   <<StateCall([w.state EXCEPT
                        !.started = TRUE, !.maxScore = pairs * 10,
                        !.data = [@ EXCEPT !.initialized = TRUE]])>>)
  ELSE w

\* the compare callback logging its move in place of the earlier ones
CompareTimerRelogging(w, st, data, correct, mounted) ==
  LET attempts  == st.attempts + 1
      matched   == data.matchedPairs + 1
      completed == IF correct THEN matched = data.totalPairs
                   ELSE attempts >= st.maxAttempts
      score     == IF correct THEN st.score + 10 ELSE st.score
      newState  == [st EXCEPT
                      !.score = score, !.attempts = attempts,
                      !.completed = completed,
                      !.won = correct /\ completed,
                      !.moves = <<Move("match", correct)>>]
      newData   == [data EXCEPT
                      !.flipped = 0,
                      !.matchedPairs = IF correct THEN matched ELSE @]
  IN  Calls([w EXCEPT
               !.gameData = IF mounted THEN newData ELSE @,
               !.isChecking = IF mounted THEN FALSE ELSE @],
            <<StateCall(newState)>> \o
            (IF completed THEN <<CompleteCall(correct, score, st)>> ELSE <<>>))

\* the 600 ms callback of handleCardClick: `st` and `data` are the state
\* and gameData the click handler ran with, `correct` whether the two cards
\* are equal; `mounted` whether the component that set the timer still is
CompareTimer(w, st, data, correct, mounted) ==
  LET attempts  == st.attempts + 1
      matched   == data.matchedPairs + 1
      completed == IF correct THEN matched = data.totalPairs
                   ELSE attempts >= st.maxAttempts
      score     == IF correct THEN st.score + 10 ELSE st.score
      newState  == [st EXCEPT
                      !.score = score, !.attempts = attempts,
                      !.completed = completed,
                      !.won = correct /\ completed,
                      !.moves = Append(@, Move("match", correct))]
      newData   == [data EXCEPT
                      !.flipped = 0,
                      !.matchedPairs = IF correct THEN matched ELSE @]
  IN  Calls([w EXCEPT
               !.gameData = IF mounted THEN newData ELSE @,
               !.isChecking = IF mounted THEN FALSE ELSE @],
            <<StateCall(newState)>> \o
            (IF completed THEN <<CompleteCall(correct, score, st)>> ELSE <<>>))

\* the cards a click can land on: the first of a pair, the partner of the
\* card face up, another face-down card, or a face-down card while two
\* cards are face up
CanClick(data, pick) ==
  CASE pick = "first" -> data.flipped = 0 /\ data.matchedPairs < data.deckPairs
    [] pick = "pair"  -> data.flipped = 1
    [] pick = "other" -> data.flipped = 1 /\ data.matchedPairs + 1 < data.deckPairs
    [] pick = "third" -> data.flipped >= 2
                         /\ 2 * data.matchedPairs + data.flipped < 2 * data.deckPairs
    [] pick = "faceup" -> data.flipped >= 1
    [] pick = "matched" -> data.matchedPairs >= 1

\* handleCardClick without the isChecking guard
handleCardClickUnchecked(w, closure, pick) ==
  IF w.gameData = NullData \/ w.state.completed THEN w
  ELSE IF pick \in {"faceup", "matched"} THEN w
  ELSE IF w.gameData.flipped + 1 # 2
    THEN [w EXCEPT !.gameData = [@ EXCEPT !.flipped = @ + 1]]
  ELSE [w EXCEPT
          !.gameData = [@ EXCEPT !.flipped = 2],
          !.isChecking = TRUE,
          !.timers = @ \cup {[kind |-> "compare", closure |-> closure,
                               state |-> w.state, data |-> w.gameData,
                               correct |-> (pick = "pair")]}]

\* handleCardClick on such a card: the compare timer is set when the
\* click makes two cards face up
handleCardClick(w, closure, pick) ==
  IF w.gameData = NullData \/ w.isChecking \/ w.state.completed THEN w
  ELSE IF pick \in {"faceup", "matched"} THEN w
  ELSE IF w.gameData.flipped + 1 # 2
    THEN [w EXCEPT !.gameData = [@ EXCEPT !.flipped = @ + 1]]
  ELSE [w EXCEPT
          !.gameData = [@ EXCEPT !.flipped = 2],
          !.isChecking = TRUE,
          !.timers = @ \cup {[kind |-> "compare", closure |-> closure,
                               state |-> w.state, data |-> w.gameData,
                               correct |-> (pick = "pair")]}]

----------------------------------------------------------------------------
(* games: StackGame, DodgeGame, ChaseGame, BounceGame.  Positions on the   *)
(* board are not kept: what a frame or a move runs into is an input.       *)

\* `state.timeLimit || d`
OrDefault(limit, d) == IF limit = NoLimit THEN d ELSE limit

\* the init effects' onStateChange({...state, started: true, ...,
\* data: {initialized: true}})
Started(st, maxScore, maxAttempts) ==
  [st EXCEPT !.started = TRUE, !.maxScore = maxScore,
             !.maxAttempts = maxAttempts,
             !.data = [initialized |-> TRUE, target |-> FALSE, guesses |-> 0]]

\* a terminal or non-terminal onStateChange with the onComplete after it
Report(w, newState, score) ==
  Calls(w, <<StateCall(newState)>> \o
           (IF newState.completed
              THEN <<CompleteCall(newState.won, score, w.state)>> ELSE <<>>))

\* the "Timer" effect without its state.completed guard
TimerEffectUnguarded(w, won, score) ==
  IF w.gameData = NullData \/ w.timeLeft = NullTime THEN w
  ELSE IF w.timeLeft <= 0
    THEN Report(w, [w.state EXCEPT !.completed = TRUE, !.won = won,
                                   !.score = score], score)
  ELSE w

\* the "Timer" effect the four countdown games share, after a render:
\* `won` and `score` are what it reports at zero
TimerEffect(w, won, score) ==
  IF w.gameData = NullData \/ w.state.completed \/ w.timeLeft = NullTime THEN w
  ELSE IF w.timeLeft <= 0
    THEN Report(w, [w.state EXCEPT !.completed = TRUE, !.won = won,
                                   !.score = score], score)
  ELSE w

\* StackGame, effect "Initialize"
StackInit(w) ==
  IF ~w.state.data.initialized
    THEN LET cfg    == w.state.config
             needed == 5 + cfg.difficulty
         IN  Calls([w EXCEPT
                      !.gameData =
                        [kind |-> "stack",
                         targetSum |-> IF cfg.element \in {"numbers", "math"}
                                         THEN 10 + cfg.difficulty * 5 ELSE 0,
                         currentSum |-> 0, collected |-> 0, needed |-> needed],
                      !.timeLeft = OrDefault(w.state.timeLimit, 60)],
                   <<StateCall(Started(w.state, needed * 15, w.state.maxAttempts))>>)
  ELSE w

\* StackGame, effect "Timer"
StackTimer(w) ==
  IF w.gameData = NullData THEN w
  ELSE LET data == w.gameData
       IN  TimerEffect(w,
             IF data.targetSum # 0 THEN data.currentSum >= data.targetSum
                                   ELSE data.collected >= data.needed,
             IF data.targetSum # 0 THEN Min(data.currentSum, data.targetSum) * 2
                                   ELSE data.collected * 15)

\* handleCatch without the completed guard
handleCatchUnguarded(w, item) ==
  LET data  == w.gameData
      st    == w.state
      moved == [st EXCEPT !.moves = Append(@, Move("stack", item.isTarget))]
  IN  IF data.targetSum # 0
        THEN LET newSum == data.currentSum + item.value
             IN  IF newSum >= data.targetSum
                   THEN Report([w EXCEPT !.gameData.currentSum = newSum],
                               [moved EXCEPT !.completed = TRUE, !.won = TRUE,
                                             !.score = data.targetSum * 2],
                               data.targetSum * 2)
                   ELSE Report([w EXCEPT !.gameData.currentSum = newSum],
                               [moved EXCEPT !.score = newSum * 2], 0)
      ELSE IF item.isTarget
        THEN LET newCollected == data.collected + 1
                 score        == newCollected * 15
             IN  Report([w EXCEPT !.gameData.collected = newCollected],
                        [moved EXCEPT !.score = score,
                                      !.completed = newCollected >= data.needed,
                                      !.won = newCollected >= data.needed],
                        score)
      ELSE LET attempts == st.attempts + 1
           IN  Report(w, [moved EXCEPT !.attempts = attempts,
                                       !.completed = attempts >= st.maxAttempts,
                                       !.won = FALSE],
                      data.collected * 15)

\* handleCatch: the player clicks a falling item
handleCatch(w, item) ==
  IF w.gameData = NullData \/ w.state.completed THEN w
  ELSE handleCatchUnguarded(w, item)

\* DodgeGame, effect "Initialize"
DodgeInit(w) ==
  IF ~w.state.data.initialized
    THEN LET needed == 3 + w.state.config.difficulty
         IN  Calls([w EXCEPT
                      !.gameData = [kind |-> "dodge", collected |-> 0,
                                    needed |-> needed, lives |-> 3],
                      !.timeLeft = OrDefault(w.state.timeLimit, 60)],
                   <<StateCall(Started(w.state, needed * 25, 3))>>)
  ELSE w

\* DodgeGame, effect "Timer"
DodgeTimer(w) ==
  IF w.gameData = NullData THEN w
  ELSE TimerEffect(w, w.gameData.collected >= w.gameData.needed,
                   w.gameData.collected * 25)

\* DodgeGame, effect "Collision detection", when an obstacle is within
\* reach of the player: the target or another item
DodgeCollision(w, isTarget) ==
  IF w.gameData = NullData \/ w.state.completed THEN w
  ELSE LET data  == w.gameData
           st    == w.state
           moved == [st EXCEPT !.moves = Append(@, Move("dodge", isTarget))]
       IN  IF isTarget
             THEN LET newCollected == data.collected + 1
                      score        == newCollected * 25
                  IN  Report([w EXCEPT !.gameData.collected = newCollected],
                             IF newCollected >= data.needed
                               THEN [moved EXCEPT !.completed = TRUE,
                                                  !.won = TRUE, !.score = score]
                               ELSE [moved EXCEPT !.score = score],
                             score)
           ELSE LET newLives == data.lives - 1
                IN  Report([w EXCEPT !.gameData.lives = newLives],
                           [moved EXCEPT !.attempts = @ + 1,
                                         !.completed = newLives <= 0,
                                         !.won = FALSE],
                           data.collected * 25)

\* ChaseGame, effect "Initialize"
ChaseInit(w) ==
  IF ~w.state.data.initialized
    THEN LET needed == 5 + w.state.config.difficulty
         IN  Calls([w EXCEPT
                      !.gameData = [kind |-> "chase", collected |-> 0,
                                    needed |-> needed, powerUp |-> FALSE],
                      !.timeLeft = OrDefault(w.state.timeLimit, 45)],
                   <<StateCall(Started(w.state, needed * 20, 3))>>)
  ELSE w

\* ChaseGame, effect "Timer"
ChaseTimer(w) ==
  IF w.gameData = NullData THEN w
  ELSE TimerEffect(w, w.gameData.collected >= w.gameData.needed,
                   w.gameData.collected * 20)

\* movePlayer onto a cell that is empty or collected ("empty"), holds an
\* uncollected target ("target") or an uncollected other item ("wrong")
movePlayer(w, cell) ==
  IF w.gameData = NullData \/ w.state.completed THEN w
  ELSE LET data  == w.gameData
           st    == w.state
           newCollected == IF cell = "target" THEN data.collected + 1
                                              ELSE data.collected
           score == newCollected * 20
           moved == [st EXCEPT !.moves = Append(@, Move("chase", cell # "wrong"))]
       IN  IF newCollected >= data.needed
             THEN Report([w EXCEPT !.gameData.collected = newCollected],
                         [moved EXCEPT !.completed = TRUE, !.won = TRUE,
                                       !.score = score], score)
           ELSE IF cell = "wrong"
             THEN LET attempts == st.attempts + 1
                  IN  Report(w,
                             IF attempts >= st.maxAttempts
                               THEN [moved EXCEPT !.attempts = attempts,
                                                  !.completed = TRUE,
                                                  !.won = FALSE]
                               ELSE [moved EXCEPT !.attempts = attempts,
                                                  !.score = score],
                             score)
           ELSE Report([w EXCEPT
                          !.gameData.collected = newCollected,
                          !.gameData.powerUp = IF cell = "target" THEN TRUE ELSE @],
                       [moved EXCEPT !.score = score], score)

\* ChaseGame, effect "Enemy collision detection", when an enemy is within
\* reach of the player
ChaseCaught(w) ==
  IF w.gameData = NullData \/ w.state.completed THEN w
  ELSE IF w.gameData.powerUp THEN w
  ELSE LET st       == w.state
           attempts == st.attempts + 1
       IN  Report(w, [st EXCEPT !.attempts = attempts,
                                !.completed = attempts >= st.maxAttempts,
                                !.won = FALSE,
                                !.moves = Append(@, Move("chase", FALSE))],
                  w.gameData.collected * 20)

\* BounceGame, effect "Initialize"
BounceInit(w) ==
  IF ~w.state.data.initialized
    THEN LET needed == 4 + w.state.config.difficulty
         IN  Calls([w EXCEPT
                      !.gameData = [kind |-> "bounce", broken |-> 0,
                                    needed |-> needed, lives |-> 3]],
                   <<StateCall(Started(w.state, needed * 25, 3))>>)
  ELSE w

\* BounceGame, effect "Check win/lose conditions"
BounceCheck(w) ==
  IF w.gameData = NullData \/ w.state.completed THEN w
  ELSE LET data  == w.gameData
           score == data.broken * 25
       IN  IF data.broken >= data.needed
             THEN Report(w, [w.state EXCEPT !.completed = TRUE, !.won = TRUE,
                                            !.score = score], score)
           ELSE IF data.lives <= 0
             THEN Report(w, [w.state EXCEPT !.completed = TRUE, !.won = FALSE,
                                            !.score = score], score)
           ELSE w

\* BounceGame, the game loop's update when the ball breaks a target block
\* or falls below the paddle
BounceFrame(w, broke) ==
  IF w.gameData = NullData THEN w
  ELSE BounceCheck(IF broke THEN [w EXCEPT !.gameData.broken = @ + 1]
                            ELSE [w EXCEPT !.gameData.lives = @ - 1])

----------------------------------------------------------------------------
(* games: ReactGame, HuntGame, RememberGame, TraceGame, ArrangeGame,       *)
(* DeduceGame.  Sequences, paths and boards are kept by their lengths and  *)
(* counts; whether an input is the expected one is an input.               *)

\* ReactGame, effects "Initialize" and "Start first round"
ReactInit(w) ==
  LET maxRounds == 5 + w.state.config.difficulty * 2
      init == IF ~w.state.data.initialized
                THEN Calls([w EXCEPT
                              !.gameData = [kind |-> "react", round |-> 0,
                                            maxRounds |-> maxRounds,
                                            hits |-> 0, misses |-> 0],
                              !.timeLeft = OrDefault(w.state.timeLimit, 30)],
                           <<StateCall(Started(w.state, maxRounds * 10,
                                               w.state.maxAttempts))>>)
                ELSE w
  IN  IF init.gameData # NullData /\ init.gameData.round = 0
         /\ ~init.state.completed
        THEN [init EXCEPT !.gameData.round = 1]
        ELSE init

\* ReactGame, effect "Timer"
ReactTimer(w) ==
  IF w.gameData = NullData THEN w
  ELSE TimerEffect(w, w.gameData.hits * 2 >= w.gameData.maxRounds,
                   w.gameData.hits * 10)

\* ReactGame.handleClick on a target not clicked yet
handleClick(w, isTarget) ==
  IF w.gameData = NullData \/ w.state.completed THEN w
  ELSE LET data  == w.gameData
           st    == w.state
           moved == [st EXCEPT !.moves = Append(@, Move("react", isTarget))]
       IN  IF isTarget
             THEN LET newHits == data.hits + 1
                      score   == newHits * 10
                  IN  IF newHits >= data.maxRounds
                        THEN Report([w EXCEPT !.gameData.hits = newHits],
                                    [moved EXCEPT !.completed = TRUE,
                                                  !.won = TRUE, !.score = score],
                                    score)
                        ELSE Report([w EXCEPT !.gameData.hits = newHits,
                                              !.gameData.round = @ + 1],
                                    [moved EXCEPT !.score = score], score)
           ELSE LET attempts == st.attempts + 1
                IN  Report([w EXCEPT !.gameData.misses = @ + 1],
                           [moved EXCEPT !.attempts = attempts,
                                         !.completed = attempts >= st.maxAttempts,
                                         !.won = FALSE],
                           data.hits * 10)

\* HuntGame, effect "Initialize": totalTargets targets among three times
\* as many items
HuntInit(w) ==
  IF ~w.state.data.initialized
    THEN LET totalTargets == 3 + w.state.config.difficulty
         IN  Calls([w EXCEPT
                      !.gameData = [kind |-> "hunt", found |-> 0,
                                    totalTargets |-> totalTargets,
                                    distractors |-> totalTargets * 3 - totalTargets],
                      !.timeLeft = OrDefault(w.state.timeLimit, 45)],
                   <<StateCall(Started(w.state, totalTargets * 20,
                                       w.state.maxAttempts))>>)
  ELSE w

\* HuntGame, effect "Timer"
HuntTimer(w) ==
  IF w.gameData = NullData THEN w
  ELSE TimerEffect(w, w.gameData.found * 2 >= w.gameData.totalTargets,
                   w.gameData.found * 20)

\* HuntGame.handleClick on an item not found yet
huntHandleClick(w, isTarget) ==
  IF w.gameData = NullData \/ w.state.completed THEN w
  ELSE LET data  == w.gameData
           st    == w.state
           moved == [st EXCEPT !.moves = Append(@, Move("hunt", isTarget))]
       IN  IF isTarget
             THEN LET newFound == data.found + 1
                      score    == newFound * 20
                  IN  Report([w EXCEPT !.gameData.found = newFound],
                             [moved EXCEPT !.score = score,
                                           !.completed = newFound >= data.totalTargets,
                                           !.won = newFound >= data.totalTargets],
                             score)
           ELSE LET attempts == st.attempts + 1
                IN  Report([w EXCEPT !.gameData.distractors = @ - 1],
                           [moved EXCEPT !.attempts = attempts,
                                         !.completed = attempts >= st.maxAttempts,
                                         !.won = FALSE],
                           data.found * 20)

\* RememberGame, effect "Initialize game"
RememberInit(w) ==
  IF ~w.state.data.initialized
    THEN LET cfg == w.state.config
         IN  Calls([w EXCEPT
                      !.gameData = [kind |-> "remember", seed |-> cfg.seed,
                                    sequence |-> cfg.difficulty + 2,
                                    currentLevel |-> 1, userInput |-> 0,
                                    phase |-> "showing"]],
                   <<StateCall(Started(w.state, 10 * cfg.difficulty,
                                       w.state.maxAttempts))>>)
  ELSE w

\* RememberGame.handleInput: the option pressed is the expected one or not.
\* Its two setTimeout callbacks replace gameData by what is kept in `data`
rememberHandleInput(w, closure, correct) ==
  IF w.gameData = NullData \/ w.gameData.phase # "input" \/ w.state.completed
    THEN w
  ELSE LET data     == w.gameData
           st       == w.state
           cfg      == closure.config
           newInput == data.userInput + 1
           moved == [st EXCEPT !.moves = Append(@, Move("remember", correct))]
       IN  IF ~correct
             THEN LET attempts  == st.attempts + 1
                      completed == attempts >= st.maxAttempts
                      out == Report([w EXCEPT !.gameData.phase = "feedback",
                                              !.gameData.userInput = newInput],
                                    [moved EXCEPT !.attempts = attempts,
                                                  !.completed = completed,
                                                  !.won = FALSE],
                                    st.score)
                  IN  IF completed THEN out
                      ELSE [out EXCEPT !.timers = @ \cup
                              {[kind |-> "restart", closure |-> closure,
                                data |-> [kind |-> "remember", seed |-> cfg.seed,
                                          sequence |-> cfg.difficulty + 2,
                                          currentLevel |-> 1, userInput |-> 0,
                                          phase |-> "showing"]]}]
           ELSE IF newInput = data.sequence
             THEN LET newScore == st.score + data.sequence
                      newLevel == data.currentLevel + 1
                  IN  IF newLevel > cfg.difficulty + 2
                        THEN Report([w EXCEPT !.gameData.phase = "feedback",
                                              !.gameData.userInput = newInput],
                                    [moved EXCEPT !.score = newScore,
                                                  !.completed = TRUE,
                                                  !.won = TRUE],
                                    newScore)
                        ELSE [Report(w, [moved EXCEPT !.score = newScore], 0)
                              EXCEPT !.timers = @ \cup
                                {[kind |-> "levelup", closure |-> closure,
                                  data |-> [kind |-> "remember",
                                            seed |-> data.seed,
                                            sequence |-> data.sequence + 1,
                                            currentLevel |-> newLevel,
                                            userInput |-> 0,
                                            phase |-> "showing"]]}]
           ELSE Report([w EXCEPT !.gameData.userInput = newInput], moved, 0)

\* RememberGame, effect "Handle showing sequence", run to its end
RememberShown(w) ==
  IF w.gameData = NullData \/ w.gameData.phase # "showing" THEN w
  ELSE [w EXCEPT !.gameData.phase = "input"]

\* TraceGame, effect: initialize, and schedule the end of the showing
TraceInit(w, closure) ==
  IF ~w.state.data.initialized
    THEN LET pathLength == 4 + w.state.config.difficulty
         IN  Calls([w EXCEPT
                      !.gameData = [kind |-> "trace", seed |-> w.state.config.seed,
                                    path |-> pathLength, userPath |-> 0,
                                    showingPath |-> TRUE],
                      !.timers = @ \cup {[kind |-> "show", closure |-> closure]}],
                   <<StateCall(Started(w.state, pathLength * 10,
                                       w.state.maxAttempts))>>)
  ELSE w

\* TraceGame.handleInput
traceHandleInput(w, closure, correct) ==
  IF w.gameData = NullData \/ w.gameData.showingPath \/ w.state.completed
    THEN w
  ELSE LET data  == w.gameData
           st    == w.state
           moved == [st EXCEPT !.moves = Append(@, Move("trace", correct))]
       IN  IF ~correct
             THEN LET attempts  == st.attempts + 1
                      completed == attempts >= st.maxAttempts
                      out == Report(w, [moved EXCEPT !.attempts = attempts,
                                                     !.completed = completed,
                                                     !.won = FALSE], 0)
                  IN  IF completed THEN out
                      ELSE [out EXCEPT
                              !.gameData.userPath = 0,
                              !.gameData.showingPath = TRUE,
                              !.timers = @ \cup {[kind |-> "show",
                                                  closure |-> closure]}]
           ELSE LET newUserPath == data.userPath + 1
                    score       == data.path * 10
                IN  IF newUserPath = data.path
                      THEN Report([w EXCEPT !.gameData.userPath = newUserPath],
                                  [moved EXCEPT !.completed = TRUE, !.won = TRUE,
                                                !.score = score], score)
                      ELSE Report([w EXCEPT !.gameData.userPath = newUserPath],
                                  moved, 0)

\* the callback that ends the showing of the path
ShowTimer(w, mounted) ==
  IF mounted /\ w.gameData # NullData /\ w.gameData.kind = "trace"
    THEN [w EXCEPT !.gameData.showingPath = FALSE]
    ELSE w

\* ArrangeGame, effect "Initialize game"
ArrangeInit(w) ==
  IF ~w.state.data.initialized
    THEN Calls([w EXCEPT !.gameData = [kind |-> "arrange", selected |-> FALSE]],
               <<StateCall(Started(w.state, (4 + w.state.config.difficulty) * 10,
                                   w.state.maxAttempts))>>)
  ELSE w

\* handleSelect with the exhaustion check ahead of the completion check
handleSelectExhaustionFirst(w, other, sorts) ==
  IF w.gameData = NullData \/ w.state.completed THEN w
  ELSE IF ~w.gameData.selected \/ ~other
    THEN [w EXCEPT !.gameData.selected = ~@]
  ELSE LET st       == w.state
           attempts == st.attempts + 1
           lost     == attempts >= st.maxAttempts
           score    == IF sorts /\ ~lost
                         THEN Max(10, st.maxScore - attempts * 2) ELSE 0
           moved == [st EXCEPT !.attempts = attempts,
                               !.moves = Append(@, [type |-> "arrange"])]
       IN  Report([w EXCEPT !.gameData.selected = FALSE],
                  IF lost
                    THEN [moved EXCEPT !.completed = TRUE, !.won = FALSE,
                                       !.score = 0]
                  ELSE IF sorts
                    THEN [moved EXCEPT !.completed = TRUE, !.won = TRUE,
                                       !.score = score]
                  ELSE moved,
                  score)

\* ArrangeGame.handleSelect: with no item selected or on the selected item
\* it toggles the selection, else it swaps; `sorts` says whether the swap
\* yields the target order
handleSelect(w, other, sorts) ==
  IF w.gameData = NullData \/ w.state.completed THEN w
  ELSE IF ~w.gameData.selected \/ ~other
    THEN [w EXCEPT !.gameData.selected = ~@]
  ELSE LET st       == w.state
           attempts == st.attempts + 1
           score    == IF sorts THEN Max(10, st.maxScore - attempts * 2) ELSE 0
           moved == [st EXCEPT !.attempts = attempts,
                               !.moves = Append(@, [type |-> "arrange"])]
       IN  Report([w EXCEPT !.gameData.selected = FALSE],
                  IF sorts
                    THEN [moved EXCEPT !.completed = TRUE, !.won = TRUE,
                                       !.score = score]
                  ELSE IF attempts >= st.maxAttempts
                    THEN [moved EXCEPT !.completed = TRUE, !.won = FALSE,
                                       !.score = 0]
                  ELSE moved,
                  score)

\* DeduceGame, effect "Initialize" for the elements whose options are the
\* six rules and whose clues are three, one of them revealed
DeduceInit(w) ==
  IF ~w.state.data.initialized
    THEN Calls([w EXCEPT !.gameData = [kind |-> "deduce", clues |-> 3,
                                       revealedClues |-> 1, decoys |-> 5]],
               <<StateCall(Started(w.state, 3 * 20, w.state.maxAttempts))>>)
  ELSE w

revealClue(w) ==
  IF w.gameData = NullData \/ w.state.completed THEN w
  ELSE IF w.gameData.revealedClues >= w.gameData.clues THEN w
  ELSE [w EXCEPT !.gameData.revealedClues = @ + 1]

\* DeduceGame.submitGuess of an option not guessed before
deduceSubmitGuess(w, correct) ==
  IF w.gameData = NullData \/ w.state.completed THEN w
  ELSE LET data     == w.gameData
           st       == w.state
           attempts == st.attempts + 1
           score    == Max(20, st.maxScore - (data.revealedClues - 1) * 20)
           moved == [st EXCEPT !.attempts = attempts,
                               !.moves = Append(@, Move("deduce", correct))]
       IN  IF correct
             THEN Report(w, [moved EXCEPT !.completed = TRUE, !.won = TRUE,
                                          !.score = score], score)
           ELSE IF attempts >= st.maxAttempts
             THEN Report([w EXCEPT !.gameData.decoys = @ - 1],
                         [moved EXCEPT !.completed = TRUE, !.won = FALSE,
                                       !.score = 0], 0)
           ELSE Report([w EXCEPT !.gameData.decoys = @ - 1], moved, 0)

----------------------------------------------------------------------------
(* the run: App.tsx above the mounted component                            *)

\* the session of the day: the one created at mount; a return to daily
\* mode resumes it from the progress stored
DailySession == 1

\* days the app is opened on (getDailySeed of a date), one per mechanic
DailySeeds ==
  {20260411, 20260108, 20260007, 20260219, 20260222, 20260328,
   20260118, 20260227, 20260025, 20260204, 20260014, 20260011}
\* what Math.random() gives getInfiniteSeed on its first call
InfiniteSeeds == {1, 7, 8}
\* steps of the player and the clock in one run
MaxInputs == 6
\* inputs of one streak
MaxStreak == 40

Seeds == DailySeeds \cup {s + k : s \in InfiniteSeeds, k \in 0..MaxInputs}
\* generateGameConfig is pure (C8): its results are computed once
ConfigOf == [s \in Seeds |-> generateGameConfig(s)]

\* the effects of the component mounted for the mechanic of `closure` that
\* run after a render with a new GameState: its init effect, then its
\* countdown.  All twelve components are mounted here, so that what each of
\* them does in a session can be checked; which of them the GameContainer
\* of ReactGame.tsx renders is GameComponent, below
Effects(closure, w) ==
  LET mechanic == closure.config.mechanic
  IN  CASE mechanic = "guess" -> GuessInit(w)
        [] mechanic = "match" -> MatchInit(w)
        [] mechanic = "remember" -> RememberInit(w)
        [] mechanic = "react" -> ReactTimer(ReactInit(w))
        [] mechanic = "arrange" -> ArrangeInit(w)
        [] mechanic = "deduce" -> DeduceInit(w)
        [] mechanic = "trace" -> TraceInit(w, closure)
        [] mechanic = "hunt" -> HuntTimer(HuntInit(w))
        [] mechanic = "stack" -> StackTimer(StackInit(w))
        [] mechanic = "dodge" -> DodgeTimer(DodgeInit(w))
        [] mechanic = "chase" -> ChaseTimer(ChaseInit(w))
        [] mechanic = "bounce" -> BounceInit(w)

\* a callback of the mounted component left `w`; the render it causes
\* runs the effects
Rendered(w) == Effects(Closure, w)

\* the component rendered for `cfg` with GameState `st`: the instance
\* mounted for the same mechanic keeps its local state, another mechanic
\* mounts a fresh one; timers nobody clears stay scheduled
Mounted(cfg, st) ==
  IF cfg.mechanic = config.mechanic
    THEN [World EXCEPT !.state = st]
    ELSE [state |-> st, gameData |-> NullData, timeLeft |-> NullTime,
          isChecking |-> FALSE, timers |-> timers, calls |-> <<>>]

\* App sets config, state, result and showResult, and the component's
\* effects run
StartSession(newMode, cfg, st, res, store, id) ==
  /\ mode' = newMode
  /\ config' = cfg
  /\ session' = id
  /\ instance' = IF cfg.mechanic = config.mechanic THEN instance ELSE instance + 1
  /\ today' = today
  /\ \E closure \in {[mode |-> newMode, today |-> today, config |-> cfg,
                        session |-> id, instance |-> instance']} :
       Apply([state |-> st, result |-> res, showResult |-> res # <<>>,
              storage |-> store,
              emitted |-> IF id > Len(emitted) THEN Append(emitted, 0)
                                               ELSE emitted,
              owner |-> id],
             closure, Effects(closure, Mounted(cfg, st)))

\* the player's step, counted
Input ==
  /\ inputs < MaxInputs
  /\ inputs' = inputs + 1
  /\ UNCHANGED <<genVars, repro>>

\* a scheduled callback's step
Fired == UNCHANGED <<inputs, genVars, repro>>

\* no pair of sessions is run side by side
NoRepro == [seed |-> 0, a |-> <<>>, b |-> <<>>, frames |-> 0]

Init ==
  /\ GenInit
  /\ repro = NoRepro
  /\ today \in DailySeeds
  /\ mode = "daily"
  /\ config = ConfigOf[today]
  /\ session = DailySession
  /\ instance = 1
  /\ inputs = 0
  /\ \E closure \in {[mode |-> "daily", today |-> today, config |-> config,
                      session |-> DailySession, instance |-> 1]} :
     \E out \in {Effects(closure,
                   [state |-> createInitialGameState(config),
                    gameData |-> NullData, timeLeft |-> NullTime,
                    isChecking |-> FALSE, timers |-> {}, calls |-> <<>>])} :
     \E app \in {Deliver([state |-> out.state, result |-> <<>>,
                          showResult |-> FALSE, storage |-> NoStorage,
                          emitted |-> <<0>>, owner |-> DailySession],
                         closure, out.calls)} :
       /\ state = app.state
       /\ result = app.result
       /\ showResult = app.showResult
       /\ storage = app.storage
       /\ emitted = app.emitted
       /\ owner = app.owner
       /\ gameData = out.gameData
       /\ timeLeft = out.timeLeft
       /\ isChecking = out.isChecking
       /\ timers = out.timers

\* Header: a mode button is pressed; the init effect runs when the mode
\* changed
handleModeChange(newMode) ==
  /\ Input
  /\ IF newMode = mode
       THEN /\ result' = <<>>
            /\ showResult' = FALSE
            /\ UNCHANGED <<today, mode, config, state, storage, compVars,
                           session, instance, emitted, owner>>
     ELSE IF newMode = "daily"
       THEN LET saved == loadDailyProgress(storage, today)
            IN  IF saved # <<>>
                  THEN StartSession("daily", saved[1].state.config,
                                    saved[1].state, saved[1].result, storage,
                                    DailySession)
                  ELSE StartSession("daily", ConfigOf[today],
                                    createInitialGameState(ConfigOf[today]),
                                    <<>>, storage, Len(emitted) + 1)
     ELSE \E seed \in IF storage.infiniteSeed # <<>>
                         THEN {storage.infiniteSeed[1]} ELSE InfiniteSeeds :
            StartSession("infinite", ConfigOf[seed],
                         createInitialGameState(ConfigOf[seed]), <<>>,
                         [storage EXCEPT !.infiniteSeed = <<seed>>],
                         Len(emitted) + 1)

\* ResultModal "Play Again", offered in infinite mode
handlePlayAgain ==
  /\ Input
  /\ showResult /\ result # <<>>
  /\ mode = "infinite"
  /\ \E seed \in {storage.infiniteSeed[1] + 1} :
       StartSession("infinite", ConfigOf[seed],
                    createInitialGameState(ConfigOf[seed]), <<>>,
                    [storage EXCEPT !.infiniteSeed = <<seed>>],
                    Len(emitted) + 1)

\* ResultModal onClose
CloseResult ==
  /\ Input
  /\ showResult /\ result # <<>>
  /\ showResult' = FALSE
  /\ UNCHANGED <<today, mode, config, state, result, storage, compVars,
                 session, instance, emitted, owner>>

----------------------------------------------------------------------------
(* the run: the mounted component's callbacks                              *)

\* submitGuess with a guess `excess` symbols longer than the target: a
\* misfit only shakes the input row
submitGuessOfLength(w, excess, right) ==
  IF w.gameData = NullData \/ w.state.completed THEN w
  ELSE IF excess # 0 THEN w
  ELSE submitGuessUnguarded(w, right)

\* HuntGame.handleClick without its item.found guard
huntClickItemAgain(w, found, isTarget) ==
  IF w.gameData = NullData \/ w.state.completed THEN w
  ELSE huntHandleClick(w, isTarget)

\* HuntGame.handleClick on any item: one found already is ignored
huntClickItem(w, found, isTarget) ==
  IF w.gameData = NullData \/ w.state.completed \/ found THEN w
  ELSE huntHandleClick(w, isTarget)

\* ReactGame.handleClick on any target: one clicked already is ignored
reactClickTarget(w, clicked, isTarget) ==
  IF w.gameData = NullData \/ w.state.completed \/ clicked THEN w
  ELSE handleClick(w, isTarget)

\* ChaseGame.movePlayer(dx, dy): a move the grid's edge clamps back to the
\* player's cell is ignored
movePlayerBy(w, clamped, cell) ==
  IF w.gameData = NullData \/ w.state.completed THEN w
  ELSE IF clamped THEN w
  ELSE movePlayer(w, cell)

GuessMisfit(excess) ==
  /\ config.mechanic = "guess"
  /\ gameData # NullData /\ gameData.kind = "guess"
  /\ Input
  /\ Commit(submitGuessOfLength(World, excess, FALSE))

\* a click on an item that was clicked before
HuntClickFound ==
  /\ config.mechanic = "hunt"
  /\ gameData # NullData /\ gameData.kind = "hunt"
  /\ state.moves # <<>>
  /\ Input
  /\ \E isTarget \in BOOLEAN : Commit(huntClickItem(World, TRUE, isTarget))

\* a click on a target that was clicked before
ReactClickClicked ==
  /\ config.mechanic = "react"
  /\ gameData # NullData /\ gameData.kind = "react"
  /\ gameData.misses > 0
  /\ Input
  /\ \E isTarget \in BOOLEAN : Commit(reactClickTarget(World, TRUE, isTarget))

\* a move against the edge of the grid
ChaseMoveWall ==
  /\ config.mechanic = "chase"
  /\ gameData # NullData /\ gameData.kind = "chase"
  /\ Input
  /\ Commit(movePlayerBy(World, TRUE, "empty"))

GuessSubmit(right) ==
  /\ config.mechanic = "guess"
  /\ Input
  /\ Commit(Rendered(submitGuess(World, right)))

MatchClick(pick) ==
  /\ config.mechanic = "match"
  /\ gameData # NullData /\ gameData.kind = "match"
  /\ CanClick(gameData, pick)
  /\ Input
  /\ Commit(Rendered(handleCardClick(World, Closure, pick)))

\* a compare timer fires; its callbacks are those of the render it was
\* set in.  The GameState it passes on is an initialized one, so that the
\* render it causes starts no game
MatchCompare(t) ==
  /\ t.kind = "compare"
  /\ Fired
  /\ \E out \in {CompareTimer([World EXCEPT !.timers = @ \ {t}], t.state,
                               t.data, t.correct,
                               t.closure.instance = instance)} :
       /\ Apply(App, t.closure, out)
       /\ UNCHANGED <<today, mode, config, session, instance>>

\* the items a click can catch: numbers in sum mode, else the target or
\* another item
StackItems(data) ==
  IF data.targetSum # 0
    THEN {[value |-> v, isTarget |-> TRUE] : v \in {1, 9}}
    ELSE {[value |-> 0, isTarget |-> b] : b \in BOOLEAN}

StackCatch(item) ==
  /\ config.mechanic = "stack"
  /\ gameData # NullData /\ gameData.kind = "stack"
  /\ item \in StackItems(gameData)
  /\ Input
  /\ Commit(Rendered(handleCatch(World, item)))

\* the countdown of the mounted component is armed
Armed(w) ==
  /\ config.mechanic \in {"stack", "dodge", "chase", "react", "hunt"}
  /\ w.gameData # NullData
  /\ ~w.state.completed
  /\ w.timeLeft # NullTime /\ w.timeLeft > 0

\* the 1 s callback of the "Timer" effect (ReactGame's also counts the
\* second in timeElapsed), and the render after it
tick(w) ==
  Rendered(IF config.mechanic = "react"
             THEN Calls([w EXCEPT !.timeLeft = @ - 1],
                        <<StateCall([w.state EXCEPT !.timeElapsed = @ + 1])>>)
             ELSE [w EXCEPT !.timeLeft = @ - 1])

Tick ==
  /\ Armed(World)
  /\ Input
  /\ Commit(tick(World))

RECURSIVE Ticks(_, _)
Ticks(w, n) ==
  IF n = 0 THEN w
  ELSE CHOOSE out \in {Ticks(next, n - 1) : next \in {tick(w)}} : TRUE

\* nothing but the countdown happens until one second is left
TickStreak ==
  /\ Armed(World)
  /\ timeLeft > 2
  /\ Input
  /\ Commit(Ticks(World, timeLeft - 1))

\* a frame or a key press brings an obstacle within reach of the player
DodgeFrame(isTarget) ==
  /\ config.mechanic = "dodge"
  /\ gameData # NullData /\ gameData.kind = "dodge"
  /\ Input
  /\ Commit(Rendered(DodgeCollision(World, isTarget)))

\* two effects of one commit: both run with the GameState of that render,
\* and the later one's onStateChange is the one that lasts
Both(first, second) ==
  [first EXCEPT !.calls = @ \o second.calls,
                !.state = LastState(@, second.calls)]

\* the 1 s callback and an animation frame are rendered in one commit
\* (updates made outside event handlers are batched): the collision effect
\* and the timer effect of that commit both run
DodgeTickAndFrame(isTarget) ==
  /\ config.mechanic = "dodge"
  /\ gameData # NullData /\ gameData.kind = "dodge"
  /\ Armed(World)
  /\ Input
  /\ \E w \in {[World EXCEPT !.timeLeft = @ - 1]} :
       Commit(Rendered(Both(DodgeCollision(w, isTarget), DodgeTimer(w))))

ChaseMove(cell) ==
  /\ config.mechanic = "chase"
  /\ gameData # NullData /\ gameData.kind = "chase"
  /\ Input
  /\ Commit(Rendered(movePlayer(World, cell)))

\* a frame brings an enemy within reach of the player
ChaseFrame ==
  /\ config.mechanic = "chase"
  /\ gameData # NullData /\ gameData.kind = "chase"
  /\ ~gameData.powerUp
  /\ Input
  /\ Commit(Rendered(ChaseCaught(World)))

\* the frame after which the two seconds of power-up are over
ChasePowerDown ==
  /\ config.mechanic = "chase"
  /\ gameData # NullData /\ gameData.kind = "chase"
  /\ gameData.powerUp /\ ~state.completed
  /\ Input
  /\ Commit(Rendered([World EXCEPT !.gameData.powerUp = FALSE]))

\* a frame in which the ball breaks a target block or falls
BounceStep(broke) ==
  /\ config.mechanic = "bounce"
  /\ gameData # NullData /\ gameData.kind = "bounce"
  /\ ~state.completed
  /\ Input
  /\ Commit(Rendered(BounceFrame(World, broke)))

ReactClick(isTarget) ==
  /\ config.mechanic = "react"
  /\ gameData # NullData /\ gameData.kind = "react"
  /\ Input
  /\ Commit(Rendered(handleClick(World, isTarget)))

HuntClick(isTarget) ==
  /\ config.mechanic = "hunt"
  /\ gameData # NullData /\ gameData.kind = "hunt"
  /\ IF isTarget THEN gameData.found < gameData.totalTargets
                 ELSE gameData.distractors > 0
  /\ Input
  /\ Commit(Rendered(huntHandleClick(World, isTarget)))

RememberInput(correct) ==
  /\ config.mechanic = "remember"
  /\ gameData # NullData /\ gameData.kind = "remember"
  /\ Input
  /\ Commit(Rendered(rememberHandleInput(World, Closure, correct)))

\* the showing of the sequence is over
RememberShow ==
  /\ config.mechanic = "remember"
  /\ gameData # NullData /\ gameData.kind = "remember"
  /\ gameData.phase = "showing"
  /\ Input
  /\ Commit(Rendered(RememberShown(World)))

\* a restart or level-up timer fires: it replaces the gameData of the
\* component that set it, if that is still mounted
RememberTimer(t) ==
  /\ t.kind \in {"restart", "levelup"}
  /\ Fired
  /\ Commit(Rendered([World EXCEPT
       !.timers = @ \ {t},
       !.gameData = IF t.closure.instance = instance THEN t.data ELSE @]))

TraceInput(correct) ==
  /\ config.mechanic = "trace"
  /\ gameData # NullData /\ gameData.kind = "trace"
  /\ Input
  /\ Commit(Rendered(traceHandleInput(World, Closure, correct)))

TraceShow(t) ==
  /\ t.kind = "show"
  /\ Fired
  /\ Commit(Rendered(ShowTimer([World EXCEPT !.timers = @ \ {t}],
                               t.closure.instance = instance)))

ArrangeSelect(other, sorts) ==
  /\ config.mechanic = "arrange"
  /\ gameData # NullData /\ gameData.kind = "arrange"
  /\ (gameData.selected /\ other) \/ ~sorts
  /\ Input
  /\ Commit(Rendered(handleSelect(World, other, sorts)))

DeduceReveal ==
  /\ config.mechanic = "deduce"
  /\ gameData # NullData /\ gameData.kind = "deduce"
  /\ gameData.revealedClues < gameData.clues
  /\ Input
  /\ Commit(Rendered(revealClue(World)))

DeduceSubmit(correct) ==
  /\ config.mechanic = "deduce"
  /\ gameData # NullData /\ gameData.kind = "deduce"
  /\ correct \/ gameData.decoys > 0
  /\ Input
  /\ Commit(Rendered(deduceSubmitGuess(World, correct)))

\* one wrong (or right) input of the mounted mechanic, with the timers it
\* sets fired and the showing it starts over
TryOnce(w, closure, right) ==
  CASE config.mechanic = "guess" -> Rendered(submitGuess(w, right))
    [] config.mechanic = "match" ->
         LET first  == handleCardClick(w, closure, "first")
             second == handleCardClick(first, closure,
                                       IF right THEN "pair" ELSE "other")
         IN  CompareTimer([second EXCEPT !.timers = w.timers],
                          first.state, first.gameData, right, TRUE)
    [] config.mechanic = "stack" ->
         Rendered(handleCatch(w, [value |-> IF w.gameData.targetSum # 0
                                              THEN 1 ELSE 0,
                                  isTarget |-> right]))
    [] config.mechanic = "dodge" -> Rendered(DodgeCollision(w, right))
    [] config.mechanic = "chase" ->
         Rendered(movePlayer(w, IF right THEN "target" ELSE "wrong"))
    [] config.mechanic = "bounce" -> Rendered(BounceFrame(w, right))
    [] config.mechanic = "react" -> Rendered(handleClick(w, right))
    [] config.mechanic = "hunt" -> Rendered(huntHandleClick(w, right))
    [] config.mechanic = "remember" ->
         LET out == rememberHandleInput(w, closure, right)
         IN  RememberShown(
               IF out.timers = w.timers THEN out
               ELSE [out EXCEPT !.timers = w.timers,
                                !.gameData = (CHOOSE t \in out.timers \ w.timers :
                                                TRUE).data])
    [] config.mechanic = "trace" ->
         LET out == traceHandleInput(w, closure, right)
         IN  IF out.timers = w.timers THEN out
             ELSE ShowTimer([out EXCEPT !.timers = w.timers], TRUE)
    [] config.mechanic = "arrange" ->
         handleSelect(handleSelect(w, TRUE, FALSE), TRUE, right)
    [] config.mechanic = "deduce" -> deduceSubmitGuess(w, right)

\* whether such inputs can be made: the game is on, nothing is scheduled
\* and it is the player's turn
CanTry(w, right) ==
  /\ w.gameData # NullData
  /\ ~w.state.completed
  /\ w.gameData.kind = config.mechanic
  /\ w.timers = {}
  /\ CASE config.mechanic = "match" ->
            /\ ~w.isChecking
            /\ CanClick(w.gameData, "first")
            /\ CanClick([w.gameData EXCEPT !.flipped = 1],
                        IF right THEN "pair" ELSE "other")
       [] config.mechanic = "stack" -> right \/ w.gameData.targetSum = 0
       [] config.mechanic = "remember" -> w.gameData.phase = "input"
       [] config.mechanic = "trace" -> ~w.gameData.showingPath
       [] config.mechanic = "arrange" -> ~w.gameData.selected /\ ~right
       [] config.mechanic = "deduce" -> ~right
       [] config.mechanic = "guess" -> ~right
       [] OTHER -> TRUE

\* such inputs, repeated as long as the next one does not end the game
RECURSIVE Tries(_, _, _, _)
Tries(w, closure, right, n) ==
  CHOOSE out \in {IF n = 0 \/ next.state.completed \/ next = w
                    THEN w ELSE Tries(next, closure, right, n - 1) :
                  next \in {TryOnce(w, closure, right)}} : TRUE

\* the player makes wrong inputs until one more would lose the game, or
\* right inputs until one more would win it
Streak(right) ==
  /\ CanTry(World, right)
  /\ Input
  /\ \E out \in {Tries(World, Closure, right, MaxStreak)} :
       /\ out.state.moves # state.moves \/ out.gameData # gameData
       /\ Commit(out)

Next ==
  \/ \E newMode \in {"daily", "infinite"} : handleModeChange(newMode)
  \/ handlePlayAgain
  \/ CloseResult
  \/ \E right \in BOOLEAN : Streak(right)
  \/ Tick
  \/ TickStreak
  \/ \E right \in BOOLEAN : GuessSubmit(right)
  \/ \E pick \in {"first", "pair", "other", "third", "faceup", "matched"} :
       MatchClick(pick)
  \/ \E excess \in {-1, 1} : GuessMisfit(excess)
  \/ HuntClickFound
  \/ ReactClickClicked
  \/ ChaseMoveWall
  \/ \E t \in timers : MatchCompare(t)
  \/ \E value \in {0, 1, 9} : \E isTarget \in BOOLEAN :
       StackCatch([value |-> value, isTarget |-> isTarget])
  \/ \E isTarget \in BOOLEAN : DodgeFrame(isTarget)
  \/ \E isTarget \in BOOLEAN : DodgeTickAndFrame(isTarget)
  \/ \E cell \in {"empty", "target", "wrong"} : ChaseMove(cell)
  \/ ChaseFrame
  \/ ChasePowerDown
  \/ \E broke \in BOOLEAN : BounceStep(broke)
  \/ \E isTarget \in BOOLEAN : ReactClick(isTarget)
  \/ \E isTarget \in BOOLEAN : HuntClick(isTarget)
  \/ \E correct \in BOOLEAN : RememberInput(correct)
  \/ RememberShow
  \/ \E t \in timers : RememberTimer(t)
  \/ \E correct \in BOOLEAN : TraceInput(correct)
  \/ \E t \in timers : TraceShow(t)
  \/ \E other, sorts \in BOOLEAN : ArrangeSelect(other, sorts)
  \/ DeduceReveal
  \/ \E correct \in BOOLEAN : DeduceSubmit(correct)

Spec == Init /\ [][Next]_vars

----------------------------------------------------------------------------
(* claims about sessions                                                   *)

\* C1: in every reachable state 0 <= attempts <= maxAttempts
C1_AttemptsBounded ==
  state.attempts >= 0 /\ state.attempts <= state.maxAttempts

\* C2: a transition that leaves attempts = maxAttempts in a session not won
\* completes the session as lost in the same transition, and no state
\* that is not completed has attempts >= maxAttempts
C2_ExhaustionCompletes ==
  /\ [](~state.completed => state.attempts < state.maxAttempts)
  /\ [][(/\ state' # state
         /\ state'.attempts = state'.maxAttempts
         /\ ~state'.won) => (state'.completed /\ ~state'.won)]_vars

\* a callback scheduled by another session than the one on screen fires
StaleFires ==
  \E t \in timers :
    t \notin timers' /\ inputs' = inputs /\ t.closure.session # session

\* C3: once the GameState of a session (the state on screen, set by that
\* session) is completed, every later input, tick and timer firing of
\* that session leaves completed, won, score, attempts and moves as they
\* are; and won holds only with completed
C3_CompletedIsTerminal ==
  /\ [](state.won => state.completed)
  /\ [][(state.completed /\ owner = session /\ session' = session
           /\ ~StaleFires)
         => /\ state'.completed = state.completed
            /\ state'.won = state.won
            /\ state'.score = state.score
            /\ state'.attempts = state.attempts
            /\ state'.moves = state.moves]_vars

\* a guess was submitted after the daily guess game had been completed
C3_Witness ==
  /\ config.mechanic = "guess"
  /\ emitted = <<1>>
  /\ state.completed /\ showResult
  /\ inputs > Len(state.moves)

\* C4: onComplete is called exactly once for a session that reaches
\* completed and never for another, however inputs, ticks and timers
\* interleave
C4_CompletesOnce ==
  \A s \in DOMAIN emitted :
    /\ emitted[s] <= 1
    /\ (s = session /\ owner = session)
         => (state.completed <=> emitted[s] = 1)

\* the component of the session on screen called onComplete in this step
Completes ==
  /\ Len(emitted') = Len(emitted)
  /\ emitted' # emitted

\* C5: the GameResult built at the terminal transition equals the
\* GameState that transition commits in won, score, attempts, maxAttempts,
\* maxScore and timeElapsed
C5_ResultIsSnapshot ==
  [][Completes =>
       /\ result' # <<>>
       /\ result'[1].won = state'.won
       /\ result'[1].score = state'.score
       /\ result'[1].attempts = state'.attempts
       /\ result'[1].maxAttempts = state'.maxAttempts
       /\ result'[1].maxScore = state'.maxScore
       /\ result'[1].timeElapsed = state'.timeElapsed]_vars

\* the scheduled callback t fires in this step
Fires(t) ==
  /\ t \in timers
  /\ t \notin timers'
  /\ inputs' = inputs

\* C6: a scheduled callback that fires after its session was superseded or
\* has completed writes neither the GameState nor the mechanic data
C6_StaleTimerNoOp ==
  [][\A t \in timers :
       (Fires(t) /\ (t.closure.session # session \/ state.completed))
         => (state' = state /\ gameData' = gameData)]_vars

\* the match component on screen shows a deck
MatchShown ==
  /\ config.mechanic = "match"
  /\ gameData # NullData
  /\ gameData.kind = "match"

\* the compare timer of the component on screen is pending
ComparePending ==
  \E t \in timers : t.kind = "compare" /\ t.closure.instance = instance

\* C15: in match at most two unmatched cards are face up, and while two
\* are face up and their compare timer has not fired, a selection changes
\* no card, no attempt and no move and sets no second timer
C15_OnePendingPair ==
  /\ [](MatchShown => gameData.flipped <= 2)
  /\ [][(MatchShown /\ gameData.flipped = 2 /\ ComparePending
           /\ inputs' = inputs + 1 /\ session' = session)
         => /\ gameData' = gameData
            /\ state' = state
            /\ timers' = timers
            /\ isChecking' = isChecking]_vars

\* C15 witness: two cards are face up in the daily match game, their
\* timer is pending, and a third input has been made
C15_Witness ==
  /\ MatchShown /\ session = 1
  /\ gameData.flipped = 2 /\ ComparePending
  /\ state.moves = <<>>
  /\ inputs = 3

\* C16: in match the compare step that brings matchedPairs to totalPairs
\* sets completed and won, and the state of a match session is won only
\* with matchedPairs = totalPairs
C16_WonIffAllMatched ==
  /\ []((MatchShown /\ owner = session /\ state.won)
          => gameData.matchedPairs = gameData.totalPairs)
  /\ [][(MatchShown /\ gameData'.kind = "match" /\ session' = session
           /\ gameData.matchedPairs < gameData.totalPairs
           /\ gameData'.matchedPairs = gameData'.totalPairs)
         => (state'.completed /\ state'.won)]_vars

\* the mechanics with a countdown, and a mounted game of one of them
Countdown == config.mechanic \in {"stack", "dodge", "chase", "hunt", "react"}
CountdownShown ==
  /\ Countdown /\ gameData # NullData
  /\ gameData.kind = config.mechanic /\ timeLeft # NullTime

\* C18: in the countdown mechanics the step in which the countdown of an
\* active session reaches zero completes the session, and from then on no
\* step of that session (a tick, a frame, a timer it set) changes the
\* GameState or emits another result
C18_ZeroCompletesOnce ==
  /\ [][(/\ CountdownShown /\ ~state.completed /\ owner = session
         /\ session' = session /\ timeLeft > 0 /\ timeLeft' = 0)
        => state'.completed]_vars
  /\ [][(/\ CountdownShown /\ state.completed /\ owner = session
         /\ timeLeft = 0 /\ session' = session /\ ~StaleFires)
        => /\ state' = state
           /\ emitted' = emitted
           /\ timeLeft' = 0]_vars

\* a countdown session that ended at zero, with further steps since then
C18_Witness ==
  /\ CountdownShown /\ state.completed /\ owner = session
  /\ timeLeft = 0 /\ emitted[session] = 1
  /\ ~showResult /\ inputs = MaxInputs

\* the quota of a countdown game is reached
QuotaReached(data) ==
  CASE data.kind = "react" -> data.hits >= data.maxRounds
    [] data.kind = "hunt" -> data.found >= data.totalTargets
    [] data.kind = "stack" ->
         IF data.targetSum # 0 THEN data.currentSum >= data.targetSum
                               ELSE data.collected >= data.needed
    [] OTHER -> data.collected >= data.needed

\* C19: the step in which the countdown of an active session reaches zero
\* ends the session won if and only if the quota is reached, whatever
\* the attempts left
C19_TimeoutWonIffQuota ==
  [][(/\ CountdownShown /\ ~state.completed /\ owner = session
      /\ session' = session /\ timeLeft > 0 /\ timeLeft' = 0)
     => /\ state'.completed
        /\ state'.won <=> QuotaReached(gameData')]_vars

\* a catching game in matching mode or a hunting game is on screen
CatchOrHunt ==
  /\ config.mechanic \in {"stack", "hunt"} /\ gameData # NullData
  /\ gameData.kind = config.mechanic
  /\ gameData.kind = "stack" => gameData.targetSum = 0

\* what the finds of a catching or hunting game are worth
Earned(data) ==
  IF data.kind = "stack" THEN data.collected * 15 ELSE data.found * 20

\* the miss that uses up the last attempt
LastMiss ==
  /\ CatchOrHunt /\ ~state.completed /\ owner = session
  /\ session' = session /\ ~StaleFires
  /\ state.attempts < state.maxAttempts
  /\ state'.attempts = state'.maxAttempts

\* C20: in the catching (matching mode) and hunting games the miss that
\* brings attempts to maxAttempts ends the session completed and lost, and
\* leaves score at what was earned before it (collected*15, found*20),
\* which is the score of the emitted result
C20_LossKeepsScore ==
  [][LastMiss => /\ state'.completed /\ ~state'.won
                 /\ state'.score = state.score
                 /\ state'.score = Earned(gameData)
                 /\ result' # <<>>
                 /\ result'[1].score = state'.score
                 /\ ~result'[1].won]_vars

\* the step is an input the game rejects: a guess of another length than
\* the target's, a click on a face-up or matched card, on a hunt item or
\* a react target clicked before, a chase move against the wall
InvalidInput ==
  \/ \E excess \in {-1, 1} : GuessMisfit(excess)
  \/ MatchClick("faceup") \/ MatchClick("matched")
  \/ HuntClickFound
  \/ ReactClickClicked
  \/ ChaseMoveWall

\* C21: invalid input leaves attempts, score, moves, completed and won of
\* the GameState unchanged
C21_InvalidInputNoOp ==
  [][InvalidInput => /\ state'.attempts = state.attempts
                     /\ state'.score = state.score
                     /\ state'.moves = state.moves
                     /\ state'.completed = state.completed
                     /\ state'.won = state.won]_vars

\* a hunt session whose second input was a click on the item found by the
\* first
C21_Witness ==
  /\ config.mechanic = "hunt" /\ session = DailySession /\ owner = session
  /\ gameData # NullData /\ gameData.kind = "hunt"
  /\ Len(state.moves) = 1 /\ inputs = 2
  /\ timeLeft = OrDefault(state.timeLimit, 45)

\* a step of the session on screen, made by the session itself
OwnStep == owner = session /\ session' = session /\ ~StaleFires

\* C22: score never decreases in a step of an active session, except in
\* the step that completes it, where a mechanic may recompute the score
\* from the final state
C22_ScoreMonotone ==
  [][(OwnStep /\ ~state.completed /\ ~state'.completed)
       => state'.score >= state.score]_vars

\* `short` is a prefix of `long`
IsPrefix(short, long) ==
  /\ Len(short) <= Len(long)
  /\ \A i \in 1..Len(short) : long[i] = short[i]

\* the step is a run of several inputs or seconds taken at once
SeveralAtOnce == (\E right \in BOOLEAN : Streak(right)) \/ TickStreak

\* C23: moves is append-only within a session: every step leaves the
\* previous moves as a prefix of the new moves, and a single input, tick,
\* countdown step or delayed compare appends at most one entry
C23_MovesAppendOnly ==
  [][OwnStep => /\ IsPrefix(state.moves, state'.moves)
                /\ Len(state'.moves) <= Len(state.moves) + 1 \/ SeveralAtOnce]_vars

\* a match session whose delayed compare logged the second move
C23_Witness ==
  /\ MatchShown /\ owner = session /\ session = DailySession
  /\ Len(state.moves) = 2 /\ inputs = 4 /\ timers = {}

\* the difficulty generateGameConfig returns when the modifier gate draws
\* g and the last call of random() returns v
DifficultyOf(g, v) ==
  GenFromDraws(0, <<<<0, 0>>, <<0, 0>>, <<0, 0>>, g, v, v>>).config.difficulty

\* the difficulties generateGameConfig returns over the values its last
\* call of random() is chosen from
DifficultyChoices ==
  {DifficultyOf(g, v) : g \in DrawChoices(4),
                        v \in DrawChoices(5) \cup DrawChoices(6)}

\* C11: the generated difficulty is 2, 3 or 4, for the seeds played and
\* for every value the last call of random() can return on either side of
\* each threshold, and the config of a session keeps the difficulty it was
\* generated with
C11_DifficultyFixed ==
  /\ [](config.difficulty \in {2, 3, 4})
  /\ [](DifficultyChoices \subseteq {2, 3, 4})
  /\ [][session' = session
         => /\ config'.difficulty = config.difficulty
            /\ config'.difficulty = ConfigOf[config.seed].difficulty]_vars

\* C11 witness: moves were made in a session generated with difficulty 3
C11_Witness ==
  /\ config.difficulty = 3
  /\ mode = "infinite"
  /\ Len(state.moves) > 1
  /\ owner = session

\* the generator called on its own, before any app is mounted
NoSession ==
  /\ today = 0
  /\ mode = "daily"
  /\ config = NoConfig
  /\ state = [config |-> NoConfig, started |-> FALSE, completed |-> FALSE,
              won |-> FALSE, score |-> 0, maxScore |-> 0, attempts |-> 0,
              maxAttempts |-> 0, timeElapsed |-> 0, timeLimit |-> NoLimit,
              moves |-> <<>>, data |-> NoData]
  /\ result = <<>>
  /\ showResult = FALSE
  /\ storage = NoStorage
  /\ gameData = NullData
  /\ timeLeft = NullTime
  /\ isChecking = FALSE
  /\ timers = {}
  /\ session = 0
  /\ instance = 0
  /\ emitted = <<>>
  /\ owner = 0
  /\ inputs = 0

GenAlone == GenInit /\ NoSession /\ repro = NoRepro

GenStep == GenNext /\ UNCHANGED <<appVars, compVars, runVars, repro>>

SpecGen == GenAlone /\ [][GenStep]_vars
DrawsAlone == DrawsInit /\ NoSession /\ repro = NoRepro

DrawsStep == DrawsNext /\ UNCHANGED <<appVars, compVars, runVars, repro>>

SpecDraws == DrawsAlone /\ [][DrawsStep]_vars

----------------------------------------------------------------------------
(* two sessions created from one seed and fed the same inputs: what their  *)
(* simulators do with the frames, each reading its own clock and its own   *)
(* Math.random()                                                           *)

\* the seeds of a stack, a react and a bounce game
ReproSeeds == {20260025, 20260219, 20260011}
\* frames and rounds run side by side
MaxFrames == 4
\* Date.now() modulo 2^32, as `state |= 0` keeps it
Nows == {<<1, 0>>, <<1, 16>>, <<1, 633>>}
\* Math.random() as numerators of fractions of 2^32
Randoms == {<<0, 0>>, <<16384, 0>>, <<49152, 0>>}
\* deltaTime of a frame, in ms
Deltas == {16, 600}

\* the simulator state of a session; of the three games each uses its part
NewSim ==
  [items |-> <<>>, spawnCounter |-> 0, round |-> 1, targets |-> <<>>,
   ballDx |-> <<0, 0>>]

\* StackGame, game loop: the spawn counter, and the item spawned when it
\* passes one second (its value as an index into COLORS.primary, its x in
\* whole units; ids and the fall of the items are not kept)
StackFrame(cfg, sim, delta, now) ==
  LET counter == sim.spawnCounter + delta
  IN  IF counter > 1000
        THEN LET random == createSeededRandom(cfg.seed)
                 draws  == StreamFrom(Add32(random, now), 2)
             IN  [sim EXCEPT
                    !.spawnCounter = 0,
                    !.items = Append(@, [value |-> FloorMul(draws[1], 6),
                                         x |-> 10 + FloorMul(draws[2], 80)])]
        ELSE [sim EXCEPT !.spawnCounter = counter]

\* ReactGame.spawnTargets: the target, and distractors picked among the
\* eight other numbers by the third, sixth and ninth result of random()
spawnTargets(cfg, sim, now) ==
  LET random == createSeededRandom(cfg.seed + sim.round * 1000)
      draws  == StreamFrom(Add32(random, now),
                           3 * (2 + cfg.difficulty \div 2))
  IN  [sim EXCEPT !.targets =
         [i \in 1..(2 + cfg.difficulty \div 2) |-> FloorMul(draws[3 * i], 8)]]

\* ReactGame.handleClick on the target: a new round
NewRound(sim) == [sim EXCEPT !.round = @ + 1, !.targets = <<>>]

\* BounceGame, game loop: the ball fell and is reset
BallReset(sim, r) == [sim EXCEPT !.ballDx = r]

ReproInit ==
  /\ GenInit /\ NoSession
  /\ \E seed \in ReproSeeds :
       repro = [seed |-> seed, a |-> NewSim, b |-> NewSim, frames |-> 0]

\* both sessions run a step: the same input, each its own environment
Side(a, b) ==
  /\ repro.frames < MaxFrames
  /\ repro' = [repro EXCEPT !.a = a, !.b = b, !.frames = @ + 1]
  /\ UNCHANGED <<genVars, appVars, compVars, runVars>>

ReproStackFrame(delta, nowA, nowB) ==
  /\ ConfigOf[repro.seed].mechanic = "stack"
  /\ Side(StackFrame(ConfigOf[repro.seed], repro.a, delta, nowA),
          StackFrame(ConfigOf[repro.seed], repro.b, delta, nowB))

ReproSpawnTargets(nowA, nowB) ==
  /\ ConfigOf[repro.seed].mechanic = "react"
  /\ Side(spawnTargets(ConfigOf[repro.seed], repro.a, nowA),
          spawnTargets(ConfigOf[repro.seed], repro.b, nowB))

ReproNewRound ==
  /\ ConfigOf[repro.seed].mechanic = "react"
  /\ Side(NewRound(repro.a), NewRound(repro.b))

ReproBallReset(rA, rB) ==
  /\ ConfigOf[repro.seed].mechanic = "bounce"
  /\ Side(BallReset(repro.a, rA), BallReset(repro.b, rB))

ReproNext ==
  \/ \E delta \in Deltas : \E nowA, nowB \in Nows :
       ReproStackFrame(delta, nowA, nowB)
  \/ \E nowA, nowB \in Nows : ReproSpawnTargets(nowA, nowB)
  \/ ReproNewRound
  \/ \E rA, rB \in Randoms : ReproBallReset(rA, rB)

SpecRepro == ReproInit /\ [][ReproNext]_vars

\* C7: two sessions created from the same seed and fed the same inputs
\* and deltaTime values pass through identical simulator states
C7_Reproducible == repro.a = repro.b

----------------------------------------------------------------------------
(* createSeededRandom called on its own: closures created and called in    *)
(* any order                                                               *)

\* seeds the closures are created with
RngSeeds == {0, 1, 20261101}

\* closures created, and calls made on each
MaxGens == 3
MaxDraws == 2

\* closure i called with its `state` held in one variable all closures share
CallRandomShared(gs, i) ==
  LET r == Random(gs[1].state)
  IN  [k \in DOMAIN gs |->
         [seed   |-> gs[k].seed,
          state  |-> IF k = 1 THEN r.state ELSE gs[k].state,
          values |-> IF k = i THEN Append(gs[k].values, r.value)
                              ELSE gs[k].values]]

\* closure i called: it advances its own `state` and returns a value
CallRandom(gs, i) ==
  LET r == Random(gs[i].state)
  IN  [gs EXCEPT ![i] = [seed   |-> gs[i].seed,
                         state  |-> r.state,
                         values |-> Append(gs[i].values, r.value)]]

LibIdle == UNCHANGED <<genSeed, genRun, genPrev, genStream, genFirst, genCount,
                       rngState, appVars, compVars, runVars, repro>>

RngInit == GenInit /\ NoSession /\ repro = NoRepro

RngCreate(seed) ==
  /\ Len(gens) < MaxGens
  /\ gens' = Append(gens, [seed |-> seed, state |-> createSeededRandom(seed),
                           values |-> <<>>])
  /\ UNCHANGED <<guessed, dealt, called>>
  /\ LibIdle

RngDraw(i) ==
  /\ Len(gens[i].values) < MaxDraws
  /\ gens' = CallRandom(gens, i)
  /\ UNCHANGED <<guessed, dealt, called>>
  /\ LibIdle

RngCreates == \E seed \in RngSeeds : RngCreate(seed)
RngDraws == \E i \in DOMAIN gens : RngDraw(i)
RngNext == RngCreates \/ RngDraws

SpecRng == RngInit /\ [][RngNext]_vars

\* C12: two closures created with the same seed return the same value at
\* every call index, whatever calls were made on other closures in between
C12_SameSeedSameStream ==
  \A i \in DOMAIN gens : \A j \in DOMAIN gens :
    gens[i].seed = gens[j].seed =>
      \A n \in DOMAIN gens[i].values \cap DOMAIN gens[j].values :
        gens[i].values[n] = gens[j].values[n]

\* C12 witness: two closures of one seed have each been called twice, and
\* a closure of another seed has been called too
C12_Witness ==
  \E i \in DOMAIN gens : \E j \in DOMAIN gens : \E k \in DOMAIN gens :
    /\ i < j
    /\ gens[i].seed = gens[j].seed
    /\ gens[k].seed # gens[i].seed
    /\ Len(gens[i].values) = 2
    /\ Len(gens[j].values) = 2
    /\ Len(gens[k].values) > 0

----------------------------------------------------------------------------
(* GuessGame.submitGuess scoring a guess against the target               *)

\* symbols of targets and guesses; the targets of colors and numbers
\* have four symbols
Symbols == {"A", "B", "C"}
TargetLength == 4
Words == [1..TargetLength -> Symbols]

\* targetChars.findIndex((t, j) => t === char && !used[j]), 0 for -1
FindIndex(targetChars, char, used) ==
  LET found == {j \in DOMAIN targetChars : targetChars[j] = char /\ ~used[j]}
  IN  IF found = {} THEN 0 ELSE CHOOSE j \in found : \A k \in found : j <= k

\* the second pass looking for the symbol anywhere in the target
RECURSIVE SecondPassUnconsumed(_, _, _, _, _)
SecondPassUnconsumed(targetChars, guessChars, fb, used, i) ==
  IF i > Len(guessChars) THEN fb
  ELSE IF fb[i] # None
    THEN SecondPassUnconsumed(targetChars, guessChars, fb, used, i + 1)
  ELSE SecondPassUnconsumed(targetChars, guessChars,
         [fb EXCEPT ![i] =
            IF \E j \in DOMAIN targetChars : targetChars[j] = guessChars[i]
              THEN "present" ELSE "absent"],
         used, i + 1)

\* second pass, from position i on: present if an unused position of the
\* target holds the symbol, and that position is used up
RECURSIVE SecondPass(_, _, _, _, _)
SecondPass(targetChars, guessChars, fb, used, i) ==
  IF i > Len(guessChars) THEN fb
  ELSE IF fb[i] # None
    THEN SecondPass(targetChars, guessChars, fb, used, i + 1)
  ELSE LET foundIndex == FindIndex(targetChars, guessChars[i], used)
       IN  IF foundIndex # 0
             THEN SecondPass(targetChars, guessChars,
                             [fb EXCEPT ![i] = "present"],
                             [used EXCEPT ![foundIndex] = TRUE], i + 1)
             ELSE SecondPass(targetChars, guessChars,
                             [fb EXCEPT ![i] = "absent"], used, i + 1)

\* the feedback of a guess without consume-tracking in the second pass
FeedbackUnconsumed(targetChars, guessChars) ==
  LET first == [i \in DOMAIN guessChars |->
                  IF guessChars[i] = targetChars[i] THEN "correct" ELSE None]
      used  == [i \in DOMAIN targetChars |-> guessChars[i] = targetChars[i]]
  IN  SecondPassUnconsumed(targetChars, guessChars, first, used, 1)

\* the feedback of a guess: first pass marks the correct positions and
\* uses them up, second pass marks present and absent
Feedback(targetChars, guessChars) ==
  LET first == [i \in DOMAIN guessChars |->
                  IF guessChars[i] = targetChars[i] THEN "correct" ELSE None]
      used  == [i \in DOMAIN targetChars |-> guessChars[i] = targetChars[i]]
  IN  SecondPass(targetChars, guessChars, first, used, 1)

FeedbackInit == GenInit /\ NoSession /\ repro = NoRepro

\* the init effect picks the target
PickTarget(target) ==
  /\ guessed = NoGuess
  /\ guessed' = [target |-> target, guess |-> <<>>, feedback |-> <<>>]
  /\ UNCHANGED <<gens, dealt, called>>
  /\ LibIdle

\* submitGuess scores a guess of the target's length
ScoreGuess(guess) ==
  /\ guessed.target # <<>>
  /\ guessed' = [target |-> guessed.target, guess |-> guess,
                 feedback |-> Feedback(guessed.target, guess)]
  /\ UNCHANGED <<gens, dealt, called>>
  /\ LibIdle

PickTargets == \E target \in Words : PickTarget(target)
ScoreGuesses == \E guess \in Words : ScoreGuess(guess)
FeedbackNext == PickTargets \/ ScoreGuesses

SpecFeedback == FeedbackInit /\ [][FeedbackNext]_vars

\* positions of a sequence holding symbol c
Holding(chars, c) == {i \in DOMAIN chars : chars[i] = c}

\* positions of the scored guess marked with one of the given statuses
Marked(statuses) ==
  {i \in DOMAIN guessed.feedback : guessed.feedback[i] \in statuses}

\* C13: position i of a scored guess is marked correct iff guess[i] =
\* target[i], and for every symbol c the positions of the guess holding c
\* that are marked correct or present number min(occurrences of c in the
\* guess, occurrences of c in the target)
C13_NoDoubleCredit ==
  guessed.guess # <<>> =>
    /\ DOMAIN guessed.feedback = DOMAIN guessed.guess
    /\ \A i \in DOMAIN guessed.guess :
         (guessed.feedback[i] = "correct") <=> (guessed.guess[i] = guessed.target[i])
    /\ \A c \in Symbols :
         Cardinality(Holding(guessed.guess, c) \cap Marked({"correct", "present"}))
           = Min(Cardinality(Holding(guessed.guess, c)),
                 Cardinality(Holding(guessed.target, c)))

\* C13 witness: a guess repeating a symbol more often than the target
\* holds it, one occurrence in place and one that finds no position left
C13_Witness ==
  /\ guessed.target = <<"A", "B", "C", "C">>
  /\ guessed.guess = <<"A", "A", "B", "A">>
  /\ guessed.feedback = <<"correct", "absent", "present", "absent">>

ABAC == <<"A", "B", "A", "C">>
AABB == <<"A", "A", "B", "B">>

\* C14 as stated: for target ABAC and guess AABB position 0 is correct
\* and there are exactly one correct and exactly one present mark
C14_OneExactOnePartial ==
  (guessed.target = ABAC /\ guessed.guess = AABB) =>
    /\ guessed.feedback[1] = "correct"
    /\ Cardinality(Marked({"correct"})) = 1
    /\ Cardinality(Marked({"present"})) = 1

\* C14 amended: for target ABAC and guess AABB position 0 is correct, the
\* A at position 1 is present (the target's second A, at position 2, is
\* unused), the B at position 2 is present and the B at position 3 is
\* absent: one correct and two present marks
C14_OneExactTwoPartial ==
  (guessed.target = ABAC /\ guessed.guess = AABB) =>
    /\ guessed.feedback = <<"correct", "present", "present", "absent">>
    /\ Cardinality(Marked({"correct"})) = 1
    /\ Cardinality(Marked({"present"})) = 2

\* C14 witness: the guess AABB has been scored against ABAC
C14_Witness ==
  /\ guessed.target = ABAC
  /\ guessed.guess = AABB
  /\ guessed.feedback # <<>>

----------------------------------------------------------------------------
(* ArrangeGame's initializer dealing the items of a seed                   *)

\* the loop of shuffleArray writing shuffled[j] to shuffled[i] without
\* writing shuffled[i] back
RECURSIVE ShuffleFromOverwriting(_, _, _)
ShuffleFromOverwriting(array, st, i) ==
  IF i <= 1 THEN [array |-> array, state |-> st]
  ELSE LET r == Random(st)
           j == FloorMul(r.value, i) + 1
       IN  ShuffleFromOverwriting([array EXCEPT ![i] = array[j]],
                                  r.state, i - 1)

\* the loop of shuffleArray from index i (counted from 1) down: the array
\* and the closure state after it
RECURSIVE ShuffleFrom(_, _, _)
ShuffleFrom(array, st, i) ==
  IF i <= 1 THEN [array |-> array, state |-> st]
  ELSE LET r == Random(st)
           j == FloorMul(r.value, i) + 1
       IN  ShuffleFrom([array EXCEPT ![i] = array[j], ![j] = array[i]],
                       r.state, i - 1)

\* shuffleArray(array, random)
shuffleArray(array, st) == ShuffleFrom(array, st, Len(array))

\* pickRandomN(array, n, random)
pickRandomN(array, n, st) ==
  LET shuffled == shuffleArray(array, st)
  IN  [array |-> SubSeq(shuffled.array, 1, Min(n, Len(array))),
       state |-> shuffled.state]

\* what the initializer picks from, each entry given by its place in the
\* target order: the numbers 1..20, the twelve colors and the six basic
\* shapes by the alphabetical place of their names, the nine patterns by
\* their index
ArrangePool(element) ==
  CASE element = "numbers" -> [i \in 1..20 |-> i]
    [] element = "colors"  -> <<10, 2, 4, 12, 9, 7, 8, 3, 6, 5, 1, 11>>
    [] element = "shapes"  -> <<1, 4, 6, 2, 5, 3>>
    [] OTHER               -> [i \in 1..9 |-> i - 1]

\* ids of the items in ascending sortValue
RECURSIVE SortIds(_, _)
SortIds(sortValue, ids) ==
  IF ids = {} THEN <<>>
  ELSE LET least == CHOOSE a \in ids : \A b \in ids : sortValue[a] <= sortValue[b]
       IN  <<least - 1>> \o SortIds(sortValue, ids \ {least})

\* the init effect of ArrangeGame for a config: the item ids in the order
\* handed to the player, and targetOrder
arrangeDeal(cfg) ==
  LET count    == 4 + cfg.difficulty
      picked   == pickRandomN(ArrangePool(cfg.element), count,
                              createSeededRandom(cfg.seed))
      shuffled == shuffleArray([i \in DOMAIN picked.array |-> i - 1],
                               picked.state)
  IN  [seed |-> cfg.seed, element |-> cfg.element,
       items |-> shuffled.array,
       targetOrder |-> SortIds(picked.array, DOMAIN picked.array),
       before |-> 0]

\* seeds dealt, all of arrange games: a daily seed and infinite seeds, of
\* every branch of the initializer
ArrangeSeeds ==
  {20260222, 18, 27, 32, 68, 132, 147, 5040, 76085, 76623, 98912, 112247}
ArrangeConfig == [s \in ArrangeSeeds |-> generateGameConfig(s)]
DealOf == [s \in ArrangeSeeds |-> arrangeDeal(ArrangeConfig[s])]

ArrangeAlone == GenInit /\ NoSession /\ repro = NoRepro

\* an arrange session of the seed is initialized
Deal(seed) ==
  /\ dealt.seed # seed
  /\ ArrangeConfig[seed].mechanic = "arrange"
  /\ dealt' = [DealOf[seed] EXCEPT !.before = dealt.seed]
  /\ UNCHANGED <<gens, guessed, called>>
  /\ LibIdle

Deals == \E seed \in ArrangeSeeds : Deal(seed)

SpecArrange == ArrangeAlone /\ [][Deals]_vars

\* C17: the order of more than one item that the arrange initializer
\* hands to the player differs from targetOrder
C17_NeverDealtSorted ==
  Len(dealt.items) > 1 => dealt.items # dealt.targetOrder

----------------------------------------------------------------------------
(* GameContainer: which component a generated session is handed to         *)

\* the JSX of GameContainer: one line `config.mechanic === m && <Game />`
\* per mechanic it knows; None when no line matches and nothing is rendered
GameComponent(mechanic) ==
  CASE mechanic = "guess" -> "GuessGame"
    [] mechanic = "match" -> "MatchGame"
    [] mechanic = "remember" -> "RememberGame"
    [] mechanic = "react" -> "ReactGame"
    [] mechanic = "arrange" -> "ArrangeGame"
    [] mechanic = "deduce" -> "DeduceGame"
    [] OTHER -> None

\* the first render of a fresh session of `cfg`: the effects of the
\* component GameContainer renders run, if it renders one
FirstRender(cfg) ==
  LET closure == [mode |-> "infinite", today |-> 0, config |-> cfg,
                  session |-> 1, instance |-> 1]
      w       == [state |-> createInitialGameState(cfg), gameData |-> NullData,
                  timeLeft |-> NullTime, isChecking |-> FALSE, timers |-> {},
                  calls |-> <<>>]
  IN  IF GameComponent(cfg.mechanic) = None THEN w ELSE Effects(closure, w)

RenderOf == [s \in Seeds |-> FirstRender(ConfigOf[s])]

DispatchAlone == GenInit /\ NoSession /\ repro = NoRepro

\* App renders GameContainer for the session of a seed
Render(seed) ==
  /\ called.seed # seed
  /\ called' = [fn |-> "GameContainer", seed |-> seed,
                mechanic |-> ConfigOf[seed].mechanic,
                component |-> GameComponent(ConfigOf[seed].mechanic),
                started |-> RenderOf[seed].state.started,
                mounted |-> RenderOf[seed].gameData # NullData,
                before |-> called.seed]
  /\ UNCHANGED <<gens, guessed, dealt>>
  /\ LibIdle

Renders == \E seed \in Seeds : Render(seed)

SpecDispatch == DispatchAlone /\ [][Renders]_vars

\* C24: every mechanic the generator produces is dispatched to a component,
\* so every generated session is started by its first render
C24_EveryMechanicDispatched ==
  called.fn = "GameContainer"
    => /\ called.mechanic \in SeqToSet(MECHANICS)
       /\ called.component # None
       /\ called.started

----------------------------------------------------------------------------
(* lib/storage.ts on raw localStorage values                               *)

\* localStorage.getItem of a key never set
Missing == "missing"
\* the day the loads run on, and the day before
StorageToday == 20260227
StorageYesterday == 20260226

\* texts a key can hold: empty, cut off, JSON of another shape than the
\* one saved under the key, and well-formed values
StoredTexts ==
  {"", "{oops", "null", "5", "[]", "{}", "{seed:20260226,state:{}}",
   "{seed:20260227}", "{seed:20260227,state:{}}", "[{won:true}]",
   "{gamesPlayed:3}"}

\* JSON values: of an object its seed and gamesPlayed fields (<<>> when it
\* has none) and whether it has a state field
JsonNull == [kind |-> "null"]
JsonObject(seed, hasState, played) ==
  [kind |-> "object", seed |-> seed, hasState |-> hasState, played |-> played]

\* JSON.parse of the texts: the value, or a SyntaxError
JsonParse(text) ==
  CASE text = "null" -> [threw |-> FALSE, value |-> JsonNull]
    [] text = "5" -> [threw |-> FALSE, value |-> [kind |-> "number"]]
    [] text = "[]" -> [threw |-> FALSE, value |-> [kind |-> "array", length |-> 0]]
    [] text = "[{won:true}]" ->
         [threw |-> FALSE, value |-> [kind |-> "array", length |-> 1]]
    [] text = "{}" ->
         [threw |-> FALSE, value |-> JsonObject(<<>>, FALSE, <<>>)]
    [] text = "{seed:20260226,state:{}}" ->
         [threw |-> FALSE, value |-> JsonObject(<<StorageYesterday>>, TRUE, <<>>)]
    [] text = "{seed:20260227}" ->
         [threw |-> FALSE, value |-> JsonObject(<<StorageToday>>, FALSE, <<>>)]
    [] text = "{seed:20260227,state:{}}" ->
         [threw |-> FALSE, value |-> JsonObject(<<StorageToday>>, TRUE, <<>>)]
    [] text = "{gamesPlayed:3}" ->
         [threw |-> FALSE, value |-> JsonObject(<<>>, FALSE, <<3>>)]
    [] OTHER -> [threw |-> TRUE, value |-> "SyntaxError"]

\* `!stored`
Falsy(stored) == stored = Missing \/ stored = ""

Returns(value) == [threw |-> FALSE, value |-> value]
Throws == [threw |-> TRUE, value |-> "TypeError"]

\* value.seed of a value that is not null: <<>> stands for undefined
SeedOf(value) ==
  IF value.kind = "object" THEN value.seed ELSE <<>>

EmptyHistory == [kind |-> "array", length |-> 0]
ZeroStats == JsonObject(<<>>, FALSE, <<0>>)

\* loadDailyProgress: null unless the stored value parses and carries
\* today's seed; the try block also catches the TypeError of null.seed
loadDailyProgressRaw(stored) ==
  IF Falsy(stored) THEN Returns(JsonNull)
  ELSE LET parsed == JsonParse(stored)
       IN  IF parsed.threw \/ parsed.value = JsonNull THEN Returns(JsonNull)
           ELSE IF SeedOf(parsed.value) = <<StorageToday>> THEN Returns(parsed.value)
           ELSE Returns(JsonNull)

\* loadGameHistory: whatever JSON.parse returns
loadGameHistory(stored) ==
  IF Falsy(stored) THEN Returns(EmptyHistory)
  ELSE LET parsed == JsonParse(stored)
       IN  IF parsed.threw THEN Returns(EmptyHistory)
           ELSE Returns(parsed.value)

\* loadStats: whatever JSON.parse returns
loadStats(stored) ==
  IF Falsy(stored) THEN Returns(ZeroStats)
  ELSE LET parsed == JsonParse(stored)
       IN  IF parsed.threw THEN Returns(ZeroStats)
           ELSE Returns(parsed.value)

\* updateStats: stats.gamesPlayed++ and the assignments after it raise a
\* TypeError on null and (the module is strict code) on a number
updateStats(stored) ==
  LET stats == loadStats(stored).value
  IN  IF stats.kind \in {"null", "number"} THEN Throws
      ELSE Returns(stats)

\* saveDailyResult on the three keys: progress.result = result,
\* history.push(result), updateStats(result)
saveDailyResultRaw(store) ==
  LET history == loadGameHistory(store[2]).value
  IN  IF history.kind # "array" THEN Throws
      ELSE updateStats(store[3])

\* App's init effect in daily mode: saved.state.config of a stored value
\* that has today's seed
startUp(store) ==
  LET saved == loadDailyProgressRaw(store[1]).value
  IN  IF saved = JsonNull THEN Returns("new game")
      ELSE IF ~saved.hasState THEN Throws
      ELSE Returns("resumed")

StorageCall(fn, store) ==
  CASE fn = "loadDailyProgress" -> loadDailyProgressRaw(store[1])
    [] fn = "loadGameHistory" -> loadGameHistory(store[2])
    [] fn = "loadStats" -> loadStats(store[3])
    [] fn = "saveDailyResult" -> saveDailyResultRaw(store)
    [] fn = "startUp" -> startUp(store)

StorageAlone == GenInit /\ NoSession /\ repro = NoRepro

StoredValues == StoredTexts \cup {Missing}

\* a storage function runs on what the three keys hold
StorageRun(fn, store) ==
  /\ called = NoCall
  /\ called' = [fn |-> fn, seed |-> StorageToday, store |-> store,
                returned |-> StorageCall(fn, store)]
  /\ UNCHANGED <<gens, guessed, dealt>>
  /\ LibIdle

StorageRuns ==
  \E fn \in {"loadDailyProgress", "loadGameHistory", "loadStats",
              "saveDailyResult", "startUp"} :
    \E progress \in StoredValues :
      \E other \in StoredValues :
        StorageRun(fn, <<progress, other, other>>)

SpecStorage == StorageAlone /\ [][StorageRuns]_vars

\* the stored values of the shape saved under each key
GoodProgress == {"{seed:20260226,state:{}}", "{seed:20260227,state:{}}"}
GoodHistory == {"[]", "[{won:true}]"}
GoodStats == {"{gamesPlayed:3}"}

\* C25: a stored value that is missing, unparseable or of the wrong shape
\* makes loadDailyProgress return null, loadGameHistory an empty list and
\* loadStats zeroed stats, and saveDailyResult and start-up raise nothing
C25_FailuresDegrade ==
  /\ (called.fn = "loadDailyProgress" /\ called.store[1] \notin GoodProgress)
       => called.returned = Returns(JsonNull)
  /\ (called.fn = "loadGameHistory" /\ called.store[2] \notin GoodHistory)
       => called.returned = Returns(EmptyHistory)
  /\ (called.fn = "loadStats" /\ called.store[3] \notin GoodStats)
       => called.returned = Returns(ZeroStats)
  /\ called.fn \in {"saveDailyResult", "startUp"} => ~called.returned.threw

----------------------------------------------------------------------------
(* lib/random.ts: daily seeds and dates                                    *)

\* a Date is kept as <<getFullYear(), getMonth(), getDate()>>
IsLeap(year) ==
  (year % 4 = 0 /\ year % 100 # 0) \/ year % 400 = 0

DaysInMonth(year, month) ==
  IF month = 1 THEN (IF IsLeap(year) THEN 29 ELSE 28)
  ELSE IF month \in {3, 5, 8, 10} THEN 30
  ELSE 31

\* new Date(year, month, day) without the two-digit-year rule
NewDateAsGiven(year, month, day) ==
  IF day <= DaysInMonth(year, month) THEN <<year, month, day>>
  ELSE IF month = 11 THEN <<year + 1, 0, day - DaysInMonth(year, month)>>
  ELSE <<year, month + 1, day - DaysInMonth(year, month)>>

\* new Date(year, month, day) for month 0..11 and day 1..31: a year
\* 0..99 means 1900 + year, a day past the end of the month runs on
\* into the next month
NewDate(year, month, day) ==
  NewDateAsGiven(IF year \in 0..99 THEN 1900 + year ELSE year, month, day)

getDailySeed(date) == date[1] * 10000 + date[2] * 100 + date[3]

getDateFromSeed(seed) ==
  NewDate(seed \div 10000, (seed % 10000) \div 100, seed % 100)

\* the dates tried: first and last days of short and long months in leap
\* and common years, two-digit years among them
DateYears == {0, 99, 100, 2024, 2026}
DateMonths == {0, 1, 11}
DateDays == {1, 28, 29, 31}
Dates == {<<y, m, d>> : y \in DateYears, m \in DateMonths, d \in DateDays}

CalendarDates == {date \in Dates : date[3] <= DaysInMonth(date[1], date[2])}

DateAlone == GenInit /\ NoSession /\ repro = NoRepro

\* getDailySeed(date), then getDateFromSeed of the seed; the call before
\* it is kept for comparison
DateCall(date) ==
  /\ IF called.fn = None THEN TRUE ELSE called.before = <<>>
  /\ called' = [fn |-> "getDailySeed", seed |-> getDailySeed(date),
                date |-> date, back |-> getDateFromSeed(getDailySeed(date)),
                before |-> IF called.fn = None THEN <<>>
                           ELSE <<[date |-> called.date, seed |-> called.seed]>>]
  /\ UNCHANGED <<gens, guessed, dealt>>
  /\ LibIdle

DateCalls == \E date \in CalendarDates : DateCall(date)

SpecDates == DateAlone /\ [][DateCalls]_vars

\* C26: getDailySeed gives year*10000 + month*100 + day, getDateFromSeed
\* of that seed recovers the same year, month and day, and dates that
\* differ get different seeds
C26_SeedRoundTrip ==
  called.fn = "getDailySeed"
    => /\ called.seed = called.date[1] * 10000 + called.date[2] * 100
                          + called.date[3]
       /\ called.back = called.date
       /\ \A b \in {called.before[i] : i \in DOMAIN called.before} :
            b.date # called.date => b.seed # called.seed

----------------------------------------------------------------------------
(* a fresh session of any config: createInitialGameState, then the first   *)
(* render of its component                                                 *)

\* every config generateGameConfig can build for some draws; the element
\* is the first compatible one, no init effect reads it here
AllConfigs ==
  {[seed |-> 0, mechanic |-> m, element |-> COMPATIBLE_COMBOS[m][1],
    constraint |-> c, modifier |-> md, difficulty |-> d] :
     m \in SeqToSet(MECHANICS),
     c \in UNION {SeqToSet(COMPATIBLE_CONSTRAINTS[x]) : x \in SeqToSet(MECHANICS)},
     md \in SeqToSet(MODIFIERS) \cup {None}, d \in 2..4}

Configs ==
  {cfg \in AllConfigs :
     cfg.constraint \in SeqToSet(COMPATIBLE_CONSTRAINTS[cfg.mechanic])}

\* the session of `cfg` after the first render of its component
Begun(cfg) ==
  Effects([mode |-> "infinite", today |-> 0, config |-> cfg,
           session |-> 1, instance |-> 1],
          [state |-> createInitialGameState(cfg), gameData |-> NullData,
           timeLeft |-> NullTime, isChecking |-> FALSE, timers |-> {},
           calls |-> <<>>])

ConfigAlone == GenInit /\ NoSession /\ repro = NoRepro

Begin(cfg) ==
  /\ called.fn = None
  /\ called' = [fn |-> "createInitialGameState", seed |-> cfg.seed,
                config |-> cfg, created |-> createInitialGameState(cfg),
                begun |-> Begun(cfg).state, timeLeft |-> Begun(cfg).timeLeft]
  /\ UNCHANGED <<gens, guessed, dealt>>
  /\ LibIdle

Begins == \E cfg \in Configs : Begin(cfg)

SpecConfigs == ConfigAlone /\ [][Begins]_vars

\* C27: the maxAttempts a started session enforces is the one derived from
\* its config, with zen and chained it is more than without a modifier,
\* and it is never below 3
C27_MaxAttemptsFromConfig ==
  called.fn = "createInitialGameState"
    => /\ called.begun.started
       /\ called.begun.maxAttempts = getBaseAttempts(called.config)
       /\ called.begun.maxAttempts >= 3
       /\ called.config.modifier \in {"zen", "chained"}
            => called.begun.maxAttempts
                 > Begun([called.config EXCEPT !.modifier = None]).state.maxAttempts

\* C28: the countdown of a session that runs one starts from the time
\* limit of its config, which is a number for every config: the base time
\* of the mechanic, halved for speed and doubled for zen
C28_CountdownFromConfig ==
  (called.fn = "createInitialGameState" /\ called.timeLeft # NullTime)
    => /\ called.created.timeLimit # NoLimit
       /\ called.timeLeft = called.created.timeLimit
       /\ called.timeLeft
            = getTimeLimit([called.config EXCEPT !.constraint = "time"])

----------------------------------------------------------------------------
(* ArrangeGame played on the items it dealt                                *)

\* arrange sessions played item by item: one whose deal is an odd number of
\* swaps from the target order, so that the last of its 15 attempts can
\* sort it, and one that is dealt in target order
SortingSeeds == {68, 76085}

\* [newItems[selected], newItems[index]] = [newItems[index], newItems[selected]]
SwapItems(items, selected, index) ==
  [items EXCEPT ![selected] = items[index], ![index] = items[selected]]

\* checkComplete: JSON.stringify(currentOrder) === JSON.stringify(targetOrder)
checkComplete(items, targetOrder) == items = targetOrder

\* the board after the init effect: gameData with its items, and GameState
BoardOf ==
  [s \in SortingSeeds |->
     [fn |-> "handleSelect", seed |-> s, items |-> DealOf[s].items,
      targetOrder |-> DealOf[s].targetOrder, selected |-> <<>>, at |-> <<>>,
      state |-> Begun(ArrangeConfig[s]).state]]

\* handleSelect(index) on a board; `at` keeps the position clicked
handleSelectAt(b, index) ==
  LET other    == IF b.selected = <<>> THEN FALSE ELSE b.selected[1] # index
      newItems == IF other THEN SwapItems(b.items, b.selected[1], index)
                  ELSE b.items
      w        == [state |-> b.state,
                   gameData |-> [kind |-> "arrange",
                                 selected |-> b.selected # <<>>],
                   timeLeft |-> NullTime, isChecking |-> FALSE, timers |-> {},
                   calls |-> <<>>]
      out      == handleSelect(w, other,
                               other /\ checkComplete(newItems, b.targetOrder))
  IN  IF b.state.completed THEN b
      ELSE [b EXCEPT !.items = newItems,
                     !.selected = IF out.gameData.selected THEN <<index>>
                                  ELSE <<>>,
                     !.at = <<index>>,
                     !.state = out.state]

SortingAlone == GenInit /\ NoSession /\ repro = NoRepro

\* the init effect of an arrange session has run
OpenBoard(seed) ==
  /\ called.fn = None
  /\ called' = BoardOf[seed]
  /\ UNCHANGED <<gens, guessed, dealt>>
  /\ LibIdle

\* the player clicks the item at a position
SelectAt(index) ==
  /\ called.fn = "handleSelect"
  /\ index \in DOMAIN called.items
  /\ called' = handleSelectAt(called, index)
  /\ UNCHANGED <<gens, guessed, dealt>>
  /\ LibIdle

\* count = 4 + difficulty items at most
SortingNext ==
  \/ \E seed \in SortingSeeds : OpenBoard(seed)
  \/ \E index \in 1..(4 + 4) : SelectAt(index)

SpecSorting == SortingAlone /\ [][SortingNext]_vars

\* C29: a click on a second, different position exchanges exactly the two
\* items, appends one move and costs one attempt; the step completes the
\* session as won iff the new order is targetOrder, also on the last
\* attempt; a click on the selected position only deselects
C29_SwapAndCheck ==
  [][(called.fn = "handleSelect" /\ called'.fn = "handleSelect"
        /\ called' # called /\ called.selected # <<>>)
       => IF called'.at = called.selected
            THEN /\ called'.selected = <<>>
                 /\ called'.items = called.items
                 /\ called'.state = called.state
            ELSE /\ called'.selected = <<>>
                 /\ \A p \in DOMAIN called.items :
                      called'.items[p]
                        = IF p = called'.at[1]
                            THEN called.items[called.selected[1]]
                          ELSE IF p = called.selected[1]
                            THEN called.items[called'.at[1]]
                          ELSE called.items[p]
                 /\ called'.state.attempts = called.state.attempts + 1
                 /\ Len(called'.state.moves) = Len(called.state.moves) + 1
                 /\ SubSeq(called'.state.moves, 1, Len(called.state.moves))
                      = called.state.moves
                 /\ (called'.state.completed /\ called'.state.won)
                      <=> called'.items = called.targetOrder
                 /\ called'.state.completed
                      <=> (called'.items = called.targetOrder
                             \/ called'.state.attempts
                                  >= called.state.maxAttempts)]_vars

\* a swap on the last allowed attempt sorted the items
C29_Witness ==
  /\ called.fn = "handleSelect"
  /\ called.state.attempts = called.state.maxAttempts
  /\ called.items = called.targetOrder
  /\ called.state.completed /\ called.state.won
  /\ Len(called.state.moves) = called.state.maxAttempts

----------------------------------------------------------------------------
(* DeduceGame played on its list of clues                                  *)

\* clues.length of the init effect: five for numbers and words, four for
\* colors, three for the rule patterns every other element gets
ClueCount(element) ==
  CASE element \in {"numbers", "words"} -> 5
    [] element = "colors" -> 4
    [] OTHER -> 3

\* deduce configs of every element and difficulty
DeduceConfigs ==
  {[cfg EXCEPT !.element = e] :
     cfg \in {c \in Configs : c.mechanic = "deduce" /\ c.constraint = "attempts"
                               /\ c.modifier \in {None, "zen"}},
     e \in SeqToSet(COMPATIBLE_COMBOS["deduce"])}

\* gameData and GameState after the init effect: the first clue is
\* revealed; `reveals` counts the reveal requests that were accepted
DeduceBoard(cfg) ==
  [fn |-> "DeduceGame", seed |-> cfg.seed, config |-> cfg,
   clues |-> [i \in 1..ClueCount(cfg.element) |-> i = 1],
   revealedClues |-> 1, reveals |-> 0,
   state |-> Started(createInitialGameState(cfg), ClueCount(cfg.element) * 20,
                     getBaseAttempts(cfg))]

\* revealClue turning up the last clue not revealed instead of the first
revealLastClue(b) ==
  LET unrevealed == {i \in DOMAIN b.clues : ~b.clues[i]}
  IN  IF b.state.completed \/ unrevealed = {} THEN b
      ELSE LET last == CHOOSE i \in unrevealed : \A j \in unrevealed : j <= i
           IN  [b EXCEPT !.clues[last] = TRUE, !.revealedClues = @ + 1,
                         !.reveals = @ + 1]

\* revealClue: clues.findIndex((c) => !c.revealed) is revealed
revealNextClue(b) ==
  LET unrevealed == {i \in DOMAIN b.clues : ~b.clues[i]}
  IN  IF b.state.completed \/ unrevealed = {} THEN b
      ELSE LET nextUnrevealed ==
                 CHOOSE i \in unrevealed : \A j \in unrevealed : i <= j
           IN  [b EXCEPT !.clues[nextUnrevealed] = TRUE,
                         !.revealedClues = @ + 1, !.reveals = @ + 1]

\* submitGuess of the selected option
submitSelected(b, correct) ==
  LET w == [state |-> b.state,
            gameData |-> [kind |-> "deduce", clues |-> Len(b.clues),
                          revealedClues |-> b.revealedClues, decoys |-> 1],
            timeLeft |-> NullTime, isChecking |-> FALSE, timers |-> {},
            calls |-> <<>>]
  IN  [b EXCEPT !.state = deduceSubmitGuess(w, correct).state]

DeduceAlone == GenInit /\ NoSession /\ repro = NoRepro

OpenDeduce(cfg) ==
  /\ called.fn = None
  /\ called' = DeduceBoard(cfg)
  /\ UNCHANGED <<gens, guessed, dealt>>
  /\ LibIdle

RevealRequest ==
  /\ called.fn = "DeduceGame"
  /\ called' = revealNextClue(called)
  /\ UNCHANGED <<gens, guessed, dealt>>
  /\ LibIdle

GuessRequest(correct) ==
  /\ called.fn = "DeduceGame"
  /\ called' = submitSelected(called, correct)
  /\ UNCHANGED <<gens, guessed, dealt>>
  /\ LibIdle

DeduceNext ==
  \/ \E cfg \in DeduceConfigs : OpenDeduce(cfg)
  \/ RevealRequest
  \/ \E correct \in BOOLEAN : GuessRequest(correct)

SpecDeduce == DeduceAlone /\ [][DeduceNext]_vars

\* C30: after every step the revealed clues are the first k of the list,
\* k = 1 + the reveal requests accepted; an accepted reveal leaves attempts
\* and moves as they were; a winning guess scores
\* max(20, maxScore - 20 * (k - 1))
C30_CluesInOrder ==
  [][called'.fn = "DeduceGame"
       => /\ \A i \in DOMAIN called'.clues :
               called'.clues[i] <=> i <= 1 + called'.reveals
          /\ called'.revealedClues = 1 + called'.reveals
          /\ (called.fn = "DeduceGame" /\ called'.reveals # called.reveals)
               => /\ called'.reveals = called.reveals + 1
                  /\ called'.state = called.state
          /\ (called.fn = "DeduceGame" /\ called'.state.won
                 /\ ~called.state.completed)
               => called'.state.score
                    = Max(20, called.state.maxScore - 20 * called.reveals)]_vars

\* a guess won after every clue of a five-clue list was revealed
C30_Witness ==
  /\ called.fn = "DeduceGame"
  /\ called.state.won
  /\ called.reveals = 4
  /\ called.state.score = 20
  /\ called.state.attempts > 1

----------------------------------------------------------------------------
(* RememberGame played on its sequence                                     *)

\* remember sessions played item by item: the daily one and an infinite
\* one, both of difficulty 2
RememberSeeds == {20260007, 15}

\* options.length of the init effect: COLORS.primary and SHAPES.basic hold
\* six entries, the numbers are nine, every other element gets eight
OptionCount(element) ==
  CASE element \in {"colors", "shapes"} -> 6
    [] element = "numbers" -> 9
    [] OTHER -> 8

\* Array.from({ length }, () => pickRandom(options, random)) for a closure
\* created from `seed`: the options by their index, counted from 1
PickedSequence(seed, length, count) ==
  LET stream == StreamFrom(createSeededRandom(seed), length)
  IN  [k \in 1..length |-> FloorMul(stream[k], count) + 1]

\* gameData and GameState after the init effect; `timers` are the
\* setTimeout callbacks of handleInput in the order they were set,
\* `repeats` counts the presses made while one was pending
RememberBoard(cfg) ==
  [fn |-> "RememberGame", seed |-> cfg.seed, config |-> cfg,
   sequence |-> PickedSequence(cfg.seed, cfg.difficulty + 2,
                               OptionCount(cfg.element)),
   currentLevel |-> 1, userInput |-> <<>>, phase |-> "showing",
   timers |-> <<>>, repeats |-> 0, state |-> Begun(cfg).state]

RememberBoardOf ==
  [s \in RememberSeeds |-> RememberBoard(generateGameConfig(s))]

\* handleInput(index) on a board: what the callback of a timer it sets
\* will hand to setGameData is kept with the timer
handleInputAt(b, index) ==
  IF b.phase # "input" \/ b.state.completed THEN b
  ELSE
  LET cfg     == b.config
      count   == OptionCount(cfg.element)
      correct == index = b.sequence[Len(b.userInput) + 1]
      w       == [state |-> b.state,
                  gameData |-> [kind |-> "remember", seed |-> cfg.seed,
                                sequence |-> Len(b.sequence),
                                currentLevel |-> b.currentLevel,
                                userInput |-> Len(b.userInput),
                                phase |-> b.phase],
                  timeLeft |-> NullTime, isChecking |-> FALSE, timers |-> {},
                  calls |-> <<>>]
      out     == rememberHandleInput(w, [mode |-> "infinite", today |-> 0,
                                         config |-> cfg, session |-> 1,
                                         instance |-> 1], correct)
      set     == IF out.timers = {} THEN <<>>
                 ELSE LET t == CHOOSE t \in out.timers : TRUE
                      IN  <<[kind |-> t.kind,
                             currentLevel |-> t.data.currentLevel,
                             sequence |->
                               IF t.kind = "levelup"
                                 THEN b.sequence \o
                                      PickedSequence(
                                        cfg.seed + t.data.currentLevel * 100,
                                        1, count)
                               ELSE PickedSequence(
                                      cfg.seed + out.state.attempts,
                                      cfg.difficulty + 2, count)]>>
  IN  [b EXCEPT !.state = out.state,
                !.phase = out.gameData.phase,
                !.userInput = IF out.gameData.userInput = Len(b.userInput)
                                THEN @ ELSE Append(@, index),
                !.timers = @ \o set]

\* a timer callback that shows the sequence of the level before again
timerCallbackSameSequence(b) ==
  [b EXCEPT !.currentLevel = Head(b.timers).currentLevel,
            !.userInput = <<>>, !.phase = "showing",
            !.timers = Tail(b.timers)]

\* the callback of the timer set first: setGameData of a new showing
timerCallback(b) ==
  [b EXCEPT !.sequence = Head(b.timers).sequence,
            !.currentLevel = Head(b.timers).currentLevel,
            !.userInput = <<>>, !.phase = "showing",
            !.timers = Tail(b.timers)]

RememberAlone == GenInit /\ NoSession /\ repro = NoRepro

OpenRemember(seed) ==
  /\ called.fn = None
  /\ called' = RememberBoardOf[seed]
  /\ UNCHANGED <<gens, guessed, dealt>>
  /\ LibIdle

\* presses made in one run while a timer of handleInput is pending
MaxRepeats == 1

\* the player presses the expected option, or the one after it; a wrong
\* press is made on the first or on the last item of a sequence
Press(right) ==
  /\ called.fn = "RememberGame"
  /\ called.phase = "input"
  /\ called.timers = <<>> \/ called.repeats < MaxRepeats
  /\ right \/ Len(called.userInput) \in {0, Len(called.sequence) - 1}
  /\ LET expected == called.sequence[Len(called.userInput) + 1]
         index    == IF right THEN expected
                     ELSE (expected % OptionCount(called.config.element)) + 1
     IN  called' = [handleInputAt(called, index) EXCEPT
                      !.repeats = IF called.timers = <<>> THEN @ ELSE @ + 1]
  /\ UNCHANGED <<gens, guessed, dealt>>
  /\ LibIdle

\* a press while the sequence is shown or feedback is given
PressEarly ==
  /\ called.fn = "RememberGame"
  /\ called.phase # "input"
  /\ called' = handleInputAt(called, 1)
  /\ UNCHANGED <<gens, guessed, dealt>>
  /\ LibIdle

\* the showing effect has shown every item; its timeouts add up to more
\* than the delay of any timer of handleInput, so none is pending by then
ShowOver ==
  /\ called.fn = "RememberGame"
  /\ called.phase = "showing" /\ called.timers = <<>>
  /\ called' = [called EXCEPT !.phase = "input"]
  /\ UNCHANGED <<gens, guessed, dealt>>
  /\ LibIdle

\* the timer set first fires: a level-up runs 1000 ms, a restart 1500 ms
\* and is set after every other
TimerFires ==
  /\ called.fn = "RememberGame"
  /\ called.timers # <<>>
  /\ called' = timerCallback(called)
  /\ UNCHANGED <<gens, guessed, dealt>>
  /\ LibIdle

RememberNext ==
  \/ \E seed \in RememberSeeds : OpenRemember(seed)
  \/ \E right \in BOOLEAN : Press(right)
  \/ PressEarly
  \/ ShowOver
  \/ TimerFires

SpecRemember == RememberAlone /\ [][RememberNext]_vars

\* the step is a press that handleInput logged as right (wrong)
Logged(correct) ==
  /\ called.fn = "RememberGame" /\ called'.fn = "RememberGame"
  /\ Len(called'.state.moves) = Len(called.state.moves) + 1
  /\ called'.state.moves[Len(called'.state.moves)].correct = correct

\* C31: GameState changes only by a press in the input phase; the press
\* that completes the sequence at a level below difficulty + 2 sets up a
\* showing of the next level with the sequence extended by one item, which
\* the timer then starts; at level difficulty + 2 it wins the session; a
\* wrong press ends the attempt and costs exactly one attempt
C31_RememberLevels ==
  [][(called.fn = "RememberGame" /\ called'.fn = "RememberGame")
       => /\ called'.state # called.state => called.phase = "input"
          /\ (Logged(TRUE)
                 /\ Len(called.userInput) + 1 = Len(called.sequence))
               => IF called.currentLevel < called.config.difficulty + 2
                    THEN /\ ~called'.state.completed
                         /\ Len(called'.timers) = Len(called.timers) + 1
                         /\ LET t == called'.timers[Len(called'.timers)]
                            IN  /\ t.kind = "levelup"
                                /\ t.currentLevel = called.currentLevel + 1
                                /\ Len(t.sequence) = Len(called.sequence) + 1
                                /\ SubSeq(t.sequence, 1, Len(called.sequence))
                                     = called.sequence
                  ELSE called'.state.completed /\ called'.state.won
          /\ (Len(called'.timers) < Len(called.timers))
               => /\ called'.phase = "showing"
                  /\ called'.userInput = <<>>
                  /\ called'.currentLevel = Head(called.timers).currentLevel
                  /\ called'.sequence = Head(called.timers).sequence
          /\ Logged(FALSE)
               => /\ called'.state.attempts = called.state.attempts + 1
                  /\ called'.phase = "feedback"
                  /\ ~called'.state.won]_vars

\* every level was reproduced once and the session is won
C31_Witness ==
  /\ called.fn = "RememberGame"
  /\ called.state.won
  /\ called.currentLevel = called.config.difficulty + 2
  /\ Len(called.sequence) = 2 * called.config.difficulty + 3
  /\ called.repeats = 0 /\ called.state.attempts = 0

\* the level-up timers among the pending ones
LevelUps(pending) == {i \in DOMAIN pending : pending[i].kind = "levelup"}

\* C35: the score of a session is never below 0 nor above the maxScore its
\* init effect set
C35_ScoreWithinMax ==
  called.fn = "RememberGame"
    => /\ called.state.score >= 0
       /\ called.state.score <= called.state.maxScore

\* C37: while the level-up timer of a completed level is pending no press
\* is accepted, so GameState stays as the completing press left it and no
\* second level-up timer is set
C37_LevelCreditedOnce ==
  [][(called.fn = "RememberGame" /\ called'.fn = "RememberGame")
       => /\ LevelUps(called.timers) # {} => called'.state = called.state
          /\ Cardinality(LevelUps(called'.timers)) <= 1]_vars

----------------------------------------------------------------------------
(* contacts in dodge and chase sessions                                    *)

\* the step brings a wrong obstacle (dodge) or an enemy (chase) within
\* reach of the player of the session on screen
Contact ==
  /\ DodgeFrame(FALSE) \/ DodgeTickAndFrame(FALSE) \/ ChaseFrame
  /\ owner = session /\ ~state.completed

\* C32: a contact that leaves lives costs exactly one attempt and leaves
\* the session active; a contact ends the session, lost, only when it
\* brings attempts to maxAttempts
C32_ContactKeepsSession ==
  [][Contact
       => /\ state.attempts + 1 < state.maxAttempts
               => /\ state'.attempts = state.attempts + 1
                  /\ ~state'.completed
          /\ state'.completed
               => ~state'.won /\ state'.attempts = state'.maxAttempts]_vars

----------------------------------------------------------------------------
(* lib/random.ts: shuffleArray and pickRandomN on any list                 *)

\* longest list shuffled
MaxList == 4
ListItems == {"a", "b", "c"}
\* every list of up to MaxList items, repeated items among them
Lists == UNION {[1..k -> ListItems] : k \in 0..MaxList}

\* the number of times an item occurs in a list
Occurrences(list, item) == Cardinality({i \in DOMAIN list : list[i] = item})

\* calls of random() that take a closure from state `from` to state `to`
DrawsBetween(from, to) ==
  CHOOSE k \in 0..(MaxList + 1) : StateAfter(from, k) = to

ShuffleAlone == GenInit /\ NoSession /\ repro = NoRepro

\* shuffleArray(list, random) and pickRandomN(list, n, random), each with a
\* closure fresh from createSeededRandom(seed); `places` are the positions
\* of the list the picked items come from, `after` is the list handed in
\* as it is after the call, which copies it
ShuffleCall(list, n, seed) ==
  /\ called.fn = None
  /\ LET st       == createSeededRandom(seed)
         shuffled == shuffleArray(list, st)
     IN  called' = [fn |-> "shuffleArray", seed |-> seed, list |-> list,
                    n |-> n, after |-> list,
                    shuffled |-> shuffled.array,
                    draws |-> DrawsBetween(st, shuffled.state),
                    picked |-> pickRandomN(list, n, st).array,
                    places |-> pickRandomN([i \in DOMAIN list |-> i], n,
                                           st).array]
  /\ UNCHANGED <<gens, guessed, dealt>>
  /\ LibIdle

ShuffleCalls ==
  \E list \in Lists, n \in {0, 2, MaxList + 1}, seed \in RngSeeds :
    ShuffleCall(list, n, seed)

SpecShuffle == ShuffleAlone /\ [][ShuffleCalls]_vars

\* the result of shuffleArray is a permutation of the list, which stays as
\* it was; pickRandomN is the first min(n, length) items of the shuffle,
\* taken from different positions of the list
ShufflePermutes ==
  /\ Len(called.shuffled) = Len(called.list)
  /\ \A item \in ListItems :
       Occurrences(called.shuffled, item) = Occurrences(called.list, item)
  /\ called.after = called.list
  /\ called.picked
       = SubSeq(called.shuffled, 1, Min(called.n, Len(called.list)))
  /\ Len(called.picked) <= Len(called.list)
  /\ \A i, j \in DOMAIN called.places :
       i # j => called.places[i] # called.places[j]
  /\ \A i \in DOMAIN called.places :
       called.picked[i] = called.list[called.places[i]]

\* C33 as stated: shuffleArray permutes and uses exactly length - 1 draws
\* for every list
C33_ShuffleDrawsLengthLessOne ==
  called.fn = "shuffleArray"
    => ShufflePermutes /\ called.draws = Len(called.list) - 1

\* C33: shuffleArray permutes and uses length - 1 draws, none for the
\* empty list
C33_ShufflePermutation ==
  called.fn = "shuffleArray"
    => ShufflePermutes /\ called.draws = Max(0, Len(called.list) - 1)

\* a list with a repeated item came back in another order, and fewer
\* items than it holds were picked
C33_Witness ==
  /\ called.fn = "shuffleArray"
  /\ called.list = <<"a", "b", "a", "c">>
  /\ called.shuffled # called.list
  /\ called.draws = 3
  /\ called.n = 2 /\ Len(called.picked) = 2


----------------------------------------------------------------------------
(* the init effects of HuntGame, DodgeGame and ChaseGame: the items each   *)
(* builds for its element, the target and the picks of the other items     *)

\* the `items` list of an initializer: value is the glyph (0 for the one
\* glyph '●' every color shares, else the place of the item in its list),
\* color the place of the hex in COLORS.primary (0 where none is set)
ItemsOf(element) ==
  CASE element = "colors" -> [i \in 1..6 |-> [value |-> 0, color |-> i]]
    [] element = "shapes" -> [i \in 1..6 |-> [value |-> i, color |-> 0]]
    [] element = "emoji"  -> [i \in 1..12 |-> [value |-> i, color |-> 0]]
    [] OTHER              -> [i \in 1..9 |-> [value |-> i, color |-> 0]]

\* the closure state when the target is picked: the emoji branch has
\* drawn a category of EMOJI first
BeforeTarget(cfg) ==
  StateAfter(createSeededRandom(cfg.seed),
             IF cfg.element = "emoji" THEN 1 ELSE 0)

TargetOf(cfg) == pickRandom(ItemsOf(cfg.element), Random(BeforeTarget(cfg)).value)

\* items.filter(i => i.value !== target.value)
NonTargets(cfg) ==
  SelectSeq(ItemsOf(cfg.element), LAMBDA it : it.value # TargetOf(cfg).value)

\* random() < 0.25 for the 32-bit draw u
LessThanQuarter(u) == u[1] < 16384

\* pickRandom of an empty list is undefined, and reading .value of
\* undefined throws a TypeError

\* HuntGame: the targets take two draws each, then the first distractor is
\* picked from `distractors` and its value read
huntInit(cfg) ==
  LET totalTargets == 3 + cfg.difficulty
      drawn        == 1 + 2 * totalTargets
  IN  [fn |-> "HuntGame", seed |-> cfg.seed, config |-> cfg,
       target |-> TargetOf(cfg), others |-> NonTargets(cfg),
       state |-> StateAfter(BeforeTarget(cfg), drawn + 1),
       phase |-> IF NonTargets(cfg) = <<>> THEN "threw" ELSE "done"]

RECURSIVE DodgeObstacles(_, _, _)
\* the obstacles of one lane; threw when a picked item is undefined
DodgeObstacles(st, n, others) ==
  IF n = 0 THEN [threw |-> FALSE, state |-> st]
  ELSE LET gate == Random(st)
       IN  IF LessThanGate(gate.value)
           THEN DodgeObstacles(StateAfter(gate.state, 1), n - 1, others)
           ELSE LET pick == Random(gate.state)
                IN  IF others = <<>>
                    THEN [threw |-> TRUE, state |-> pick.state]
                    ELSE DodgeObstacles(StateAfter(pick.state, 1), n - 1, others)

RECURSIVE DodgeLanes(_, _, _)
DodgeLanes(st, lanes, others) ==
  IF lanes = 0 THEN FALSE
  ELSE LET count     == Random(st)
           obstacles == DodgeObstacles(count.state, 2 + FloorMul(count.value, 3),
                                       others)
       IN  IF obstacles.threw THEN TRUE
           ELSE DodgeLanes(StateAfter(obstacles.state, 2), lanes - 1, others)

dodgeInit(cfg) ==
  LET numLanes == 4 + (cfg.difficulty \div 2)
      threw    == DodgeLanes(StateAfter(BeforeTarget(cfg), 1), numLanes,
                             NonTargets(cfg))
  IN  [fn |-> "DodgeGame", seed |-> cfg.seed, config |-> cfg,
       target |-> TargetOf(cfg), others |-> NonTargets(cfg),
       phase |-> IF threw THEN "threw" ELSE "done"]

gridSize == 7

\* ChaseGame before its first cell: cells lists the grid row by row, each
\* cell "" (empty), "target" or "other"
chaseInit(cfg) ==
  [fn |-> "ChaseGame", seed |-> cfg.seed, config |-> cfg,
   target |-> TargetOf(cfg), others |-> NonTargets(cfg),
   needed |-> 5 + cfg.difficulty, cells |-> <<>>,
   state |-> StateAfter(BeforeTarget(cfg), 1), phase |-> "grid"]

targetCount(cells) == Cardinality({k \in DOMAIN cells : cells[k] = "target"})

\* one pass of the inner loop that fills the grid
chaseCell(c) ==
  LET isEmpty == Random(c.state)
      quarter == Random(isEmpty.state)
      pick    == Random(quarter.state)
  IN  IF LessThanGate(isEmpty.value)
      THEN [c EXCEPT !.cells = Append(@, ""), !.state = isEmpty.state]
      ELSE IF LessThanQuarter(quarter.value)
      THEN [c EXCEPT !.cells = Append(@, "target"), !.state = quarter.state]
      ELSE IF c.others = <<>>
      THEN [c EXCEPT !.state = pick.state, !.phase = "threw"]
      ELSE [c EXCEPT !.cells = Append(@, "other"), !.state = pick.state]

\* one pass of while (targetCount < needed)
chaseTopUp(c) ==
  LET x == Random(c.state)
      y == Random(x.state)
      k == FloorMul(y.value, gridSize) * gridSize + FloorMul(x.value, gridSize) + 1
  IN  [c EXCEPT !.state = y.state,
                !.cells = IF @[k] = "other" THEN [@ EXCEPT ![k] = "target"]
                          ELSE @]

\* the player start cell is cleared once the loop has ended
chaseClear(c) ==
  LET centre == (gridSize \div 2) * gridSize + (gridSize \div 2) + 1
  IN  [c EXCEPT !.cells = [@ EXCEPT ![centre] = ""], !.phase = "done"]

\* seeds whose configs are hunt (1, 95), dodge (20, 71) and chase
InitSeeds == {1, 95, 20, 71, 30, 41, 48, 64, 20261117}

InitAlone == GenInit /\ NoSession /\ repro = NoRepro

OpenInit(seed) ==
  LET cfg == generateGameConfig(seed)
  IN  /\ called.fn = None
      /\ called' = CASE cfg.mechanic = "hunt"  -> huntInit(cfg)
                     [] cfg.mechanic = "dodge" -> dodgeInit(cfg)
                     [] OTHER                  -> chaseInit(cfg)
      /\ UNCHANGED <<gens, guessed, dealt>>
      /\ LibIdle

ChaseCell ==
  /\ called.fn = "ChaseGame"
  /\ called.phase = "grid"
  /\ Len(called.cells) < gridSize * gridSize
  /\ called' = chaseCell(called)
  /\ UNCHANGED <<gens, guessed, dealt>>
  /\ LibIdle

ChaseTopUp ==
  /\ called.fn = "ChaseGame"
  /\ called.phase = "grid"
  /\ Len(called.cells) = gridSize * gridSize
  /\ targetCount(called.cells) < called.needed
  /\ called' = chaseTopUp(called)
  /\ UNCHANGED <<gens, guessed, dealt>>
  /\ LibIdle

ChaseClear ==
  /\ called.fn = "ChaseGame"
  /\ called.phase = "grid"
  /\ Len(called.cells) = gridSize * gridSize
  /\ targetCount(called.cells) >= called.needed
  /\ called' = chaseClear(called)
  /\ UNCHANGED <<gens, guessed, dealt>>
  /\ LibIdle

InitNext ==
  \/ \E seed \in InitSeeds : OpenInit(seed)
  \/ ChaseCell
  \/ ChaseTopUp
  \/ ChaseClear

SpecInits == InitAlone /\ [][InitNext]_vars

\* C34: the initializers of the simulators end without an error for every
\* generated config, and every distractor or non-target item is picked
\* from a list that is not empty
C34_InitTotal ==
  called.fn \in {"HuntGame", "DodgeGame", "ChaseGame"} =>
    /\ called.phase # "threw"
    /\ called.others # <<>>

\* C39: once ChaseGame has cleared the player start cell, the grid holds
\* at least `needed` targets
C39_ChaseQuota ==
  (called.fn = "ChaseGame" /\ called.phase = "done") =>
    targetCount(called.cells) >= called.needed


----------------------------------------------------------------------------
(* the deck MatchGame deals for a config                                   *)

\* the init effect of MatchGame: the items picked for the pairs, given by
\* their place in the list they are picked from, two cards for each, and
\* the cards shuffled
matchDeal(cfg) ==
  LET side     == IF cfg.difficulty <= 2 THEN 4
                  ELSE IF cfg.difficulty <= 4 THEN 6 ELSE 8
      pairs    == (side * side) \div 2
      items    == pickRandomN([i \in 1..MatchItems(cfg) |-> i], pairs,
                              createSeededRandom(cfg.seed))
      cards    == [k \in 1..(2 * Len(items.array)) |-> items.array[(k + 1) \div 2]]
  IN  [fn |-> "MatchGame", seed |-> cfg.seed, config |-> cfg,
       cards |-> shuffleArray(cards, items.state).array,
       totalPairs |-> pairs]

DeckSeeds == {0, 1, 8, 66, 20260170, 20260208, 20261101}

DeckConfigs ==
  {[seed |-> s, mechanic |-> "match", element |-> e, difficulty |-> d] :
     s \in DeckSeeds, e \in SeqToSet(COMPATIBLE_COMBOS["match"]), d \in 2..4}

DeckAlone == GenInit /\ NoSession /\ repro = NoRepro

DealDeck(cfg) ==
  /\ called.fn = None
  /\ called' = matchDeal(cfg)
  /\ UNCHANGED <<gens, guessed, dealt>>
  /\ LibIdle

DeckNext == \E cfg \in DeckConfigs : DealDeck(cfg)

SpecDecks == DeckAlone /\ [][DeckNext]_vars

\* C38: the deck MatchGame deals holds 2 * totalPairs cards, and every
\* value on it is on exactly two cards
C38_DeckHoldsAllPairs ==
  called.fn = "MatchGame" =>
    /\ Len(called.cards) = 2 * called.totalPairs
    /\ \A k \in DOMAIN called.cards :
         Occurrences(called.cards, called.cards[k]) = 2


----------------------------------------------------------------------------
(* the countdown of StackGame, DodgeGame and ChaseGame beside their frame  *)
(* loop, with the time between renders counted in instants                 *)

\* instants the model tells apart within the 1000 ms of the timeout
Instants == 4

ClockConfigs ==
  {cfg \in Configs : /\ cfg.mechanic \in {"stack", "dodge", "chase"}
                     /\ cfg.constraint = "time"
                     /\ cfg.modifier = None
                     /\ cfg.difficulty = 2}

\* the timer effect after a render: it reports the end at timeLeft <= 0
\* and sets a new timeout of 1000 ms otherwise
timerEffect(c) ==
  IF c.completed THEN c
  ELSE IF c.timeLeft <= 0 THEN [c EXCEPT !.completed = TRUE]
  ELSE [c EXCEPT !.armed = 0]

\* the session after its init effect: armed counts the instants since the
\* pending timeout was set, idle those since the last frame (a full second
\* and more counts as Instants)
clockInit(cfg) ==
  timerEffect([fn |-> "timer", seed |-> cfg.seed, config |-> cfg,
               timeLeft |-> Begun(cfg).timeLeft, armed |-> 0, idle |-> 0,
               completed |-> FALSE])

\* the callback of requestAnimationFrame: setGameData puts a new object in
\* gameData, a dependency of the timer effect, whose cleanup clears the
\* pending timeout before the effect runs again
gameLoop(c) == timerEffect([c EXCEPT !.idle = 0])

\* the callback of the timeout: setTimeLeft(prev - 1) and the render after
timeoutCallback(c) == timerEffect([c EXCEPT !.timeLeft = @ - 1])

ClockAlone == GenInit /\ NoSession /\ repro = NoRepro

ClockStep(next) ==
  /\ called.fn = "timer"
  /\ ~called.completed
  /\ called' = next
  /\ UNCHANGED <<gens, guessed, dealt>>
  /\ LibIdle

OpenClock(cfg) ==
  /\ called.fn = None
  /\ called' = clockInit(cfg)
  /\ UNCHANGED <<gens, guessed, dealt>>
  /\ LibIdle

\* an instant passes; a timeout that is due runs before the next one
Pass ==
  /\ called.fn = "timer"
  /\ called.armed < Instants
  /\ ClockStep([called EXCEPT !.armed = @ + 1,
                              !.idle = Min(@ + 1, Instants)])

Frame ==
  /\ called.fn = "timer"
  /\ called.idle > 0
  /\ ClockStep(gameLoop(called))

Timeout ==
  /\ called.fn = "timer"
  /\ called.armed = Instants
  /\ ClockStep(timeoutCallback(called))

ClockNext ==
  \/ \E cfg \in ClockConfigs : OpenClock(cfg)
  \/ Pass
  \/ Frame
  \/ Timeout

\* time goes on and a due timeout runs; frames come as the browser
\* schedules them
SpecClock ==
  /\ ClockAlone
  /\ [][ClockNext]_vars
  /\ WF_vars(Pass)
  /\ WF_vars(Timeout)

\* C36: in a running session whose frames keep arriving less than a second
\* apart the countdown still reaches 0 and the session completes: a
\* running session leads to its end or to a second without a frame
C36_CountdownCompletes ==
  (called.fn = "timer") ~>
    (called.fn = "timer" /\ (called.completed \/ called.idle = Instants))


----------------------------------------------------------------------------
(* a daily session taken up again from the saved progress                  *)

\* C40: a daily session restored from saved progress that is started, not
\* completed and initialized is playable: its component holds the data of
\* its mechanic and is not left on the loading placeholder
C40_RestoredPlayable ==
  (/\ mode = "daily"
   /\ state.started /\ ~state.completed /\ state.data.initialized) =>
    gameData # NullData

====
